---------------------------- MODULE Spec2Model ----------------------------
(***************************************************************************)
(* A model of the computational core of hydro-suite:                       *)
(*   - the soil-group parsers of the composite CN and Rational-C           *)
(*     calculators (parse_soil_group),                                     *)
(*   - the area-weighted aggregation loops of both calculators             *)
(*     (run_calculation) with the outputs they write,                      *)
(*   - the multi-method time-of-concentration engine (tc_processing.py).   *)
(*                                                                         *)
(* Strings whose characters the code inspects (soil groups, land-use       *)
(* codes, method names) are sequences of one-character strings.            *)
(* Areas, parameter values and times are exact numbers; a quotient is kept *)
(* as a reduced fraction <<numerator, denominator>>.                       *)
(***************************************************************************)
EXTENDS Integers, Sequences, FiniteSets, TLC

VARIABLES
    \* --- soil-group parsers, called on one raw attribute value
    soil_group_raw,     \* the attribute value handed to parse_soil_group
    cn_soil_group,      \* what the CN parser returned ("unset" before the call)
    c_soil_group,       \* what the Rational-C parser returned
    cn_soil_group_twice, \* what the CN parser returned for its own result
    c_soil_group_twice, \* what the Rational-C parser returned for its own result
    \* --- aggregation run (run_calculation of either dialog)
    calculator,         \* "CN" or "C": which dialog runs
    slope_suffix,       \* Rational-C: the project-wide slope column suffix
    features,           \* the features final_intersection.getFeatures() has
                        \* yielded so far, in iteration order
    pc,                 \* "loop" | "outputs" | "done"
    subbasin_data,      \* zone id -> [total_area, area_sum]
    detailed_records,   \* the detail rows appended so far
    warnings,           \* indices of the features logged as lookup misses
    output_layer,       \* zone id -> [comp, area] written to the output layer
    detailed_csv,       \* zone id -> composite printed in the detailed report
    summary_csv,        \* zone id -> composite printed in the summary report
    \* --- TC engine, called directly: TCParameters(...), then
    \* --- TCMethodFactory.create_method(name, parameters), then calculate()
    api_pc,             \* "idle" | "start" | "constructed" | "created" | "done"
    parameters,         \* <<>>, or <<p>> for the TCParameters object p
    method_name,        \* the name handed to create_method
    method,             \* <<>>, or <<m>> for the method instance m
    tc_minutes,         \* <<>>, or <<t>> for the time calculate() returned
    api_raised,         \* "" or the class of the exception the last call raised
    \* --- TC engine, batch run: calculate_tc_for_subbasins
    run_pc,             \* "idle" | "start" | "validated" | "processing" |
                        \* "committed" | "returned"
    run_args,           \* the arguments of the call and the state of its layers
    subbasins,          \* the features subbasin_layer.getFeatures() has yielded
    layer_fields,       \* the result fields added to the subbasin layer
    layer_attributes,   \* committed attribute values: feature index -> values
    edit_buffer,        \* attribute changes of the open edit session
    edit_state,         \* "none" | "editing" | "committed" | "rolledback"
    results,            \* the TCResults collected so far
    csv_rows,           \* <<>>, or <<rows>> once the results file is written
    return_value,       \* <<>>, or <<b>> once the call has returned b
    \* --- TC engine, one call below the batch entry point:
    \* --- TCResults.calculate_statistics(selected_methods) on a new TCResults,
    \* --- or _calculate_tc_for_feature_multi_method(feature, ...)
    eng_pc,             \* "idle" | "statistics" | "feature" | "conversion" |
                        \* "done"
    feature_args,       \* <<>>, or <<a>> for the arguments a of the feature call
    selected_methods,   \* the selected_methods argument of the call
    tc_results,         \* <<>> (None), or <<r>> for the TCResults object r
    \* --- the conversion of an SCS lag time to a time of concentration, by the
    \* --- multi-method engine and by the standalone TR-55 calculators
    lag_hours,          \* <<>>, or <<lag>> for the lag time handed over
    lag_tc,             \* <<>>, or <<t>> for the record t of the three times
    \* --- the toolbox controller (HydroSuiteController)
    tools_registry,     \* the registry, in insertion order: one entry per tool id
    instances_created,  \* the number of tool instances constructed so far
    load_log,           \* the load_tool calls so far: tool id and returned value
    categories          \* <<>>, or <<c>> for what get_tool_categories returned

soilVars == <<soil_group_raw, cn_soil_group, c_soil_group,
              cn_soil_group_twice, c_soil_group_twice>>
aggVars == <<calculator, slope_suffix, features, pc, subbasin_data,
             detailed_records, warnings, output_layer, detailed_csv, summary_csv>>
apiVars == <<api_pc, parameters, method_name, method, tc_minutes, api_raised>>
runVars == <<run_pc, run_args, subbasins, layer_fields, layer_attributes,
             edit_buffer, edit_state, results, csv_rows, return_value>>
engVars == <<eng_pc, feature_args, selected_methods, tc_results, lag_hours, lag_tc>>
tcVars == <<apiVars, runVars, engVars>>
suiteVars == <<tools_registry, instances_created, load_log, categories>>
vars == <<soilVars, aggVars, tcVars, suiteVars>>

\* Values that are not strings are one-element sequences holding a token no
\* character sequence can equal.
None == <<"None">>
NULL == <<"NULL">>
Unset == <<"unset">>
\* An optional number is <<n>>, or the empty sequence when it is None.
NoValue == <<>>

\* The parts of the program a behaviour does not exercise stay as they are.
SoilIdle ==
    /\ soil_group_raw = <<>> /\ cn_soil_group = Unset /\ c_soil_group = Unset
    /\ cn_soil_group_twice = Unset /\ c_soil_group_twice = Unset

AggIdle ==
    /\ calculator = "CN" /\ slope_suffix = <<>> /\ features = <<>>
    /\ pc = "idle" /\ subbasin_data = <<>>
    /\ detailed_records = <<>> /\ warnings = {} /\ output_layer = <<>>
    /\ detailed_csv = <<>> /\ summary_csv = <<>>

ApiIdle ==
    /\ api_pc = "idle" /\ parameters = <<>> /\ method_name = <<>>
    /\ method = <<>> /\ tc_minutes = <<>> /\ api_raised = ""

RunIdle ==
    /\ run_pc = "idle" /\ run_args = <<>> /\ subbasins = <<>>
    /\ layer_fields = {} /\ layer_attributes = <<>> /\ edit_buffer = <<>>
    /\ edit_state = "none" /\ results = <<>> /\ csv_rows = <<>>
    /\ return_value = <<>>

EngIdle ==
    /\ eng_pc = "idle" /\ feature_args = <<>> /\ selected_methods = <<>>
    /\ tc_results = <<>> /\ lag_hours = <<>> /\ lag_tc = <<>>

SuiteIdle ==
    /\ tools_registry = <<>> /\ instances_created = 0 /\ load_log = <<>>
    /\ categories = <<>>

TcIdle == ApiIdle /\ RunIdle /\ EngIdle /\ SuiteIdle

---------------------------------------------------------------------------
(* Strings as sequences of characters.                                     *)

LowerLetters == <<"a","b","c","d","e","f","g","h","i","j","k","l","m",
                  "n","o","p","q","r","s","t","u","v","w","x","y","z">>
UpperLetters == <<"A","B","C","D","E","F","G","H","I","J","K","L","M",
                  "N","O","P","Q","R","S","T","U","V","W","X","Y","Z">>
Whitespace == {" ", "\t", "\n"}

\* the upper-case and lower-case forms of the letters
UpperMap == [ch \in {LowerLetters[i] : i \in DOMAIN LowerLetters} |->
                UpperLetters[CHOOSE i \in DOMAIN LowerLetters : LowerLetters[i] = ch]]
LowerMap == [ch \in {UpperLetters[i] : i \in DOMAIN UpperLetters} |->
                LowerLetters[CHOOSE i \in DOMAIN UpperLetters : UpperLetters[i] = ch]]

UpperChar(ch) == IF ch \in DOMAIN UpperMap THEN UpperMap[ch] ELSE ch

LowerChar(ch) == IF ch \in DOMAIN LowerMap THEN LowerMap[ch] ELSE ch

\* str.upper() / str.lower()
Upper(s) == [i \in 1..Len(s) |-> UpperChar(s[i])]
Lower(s) == [i \in 1..Len(s) |-> LowerChar(s[i])]

RECURSIVE LStrip(_)
LStrip(s) == IF s # <<>> /\ Head(s) \in Whitespace THEN LStrip(Tail(s)) ELSE s

RECURSIVE RStrip(_)
RStrip(s) ==
    IF s # <<>> /\ s[Len(s)] \in Whitespace
    THEN RStrip(SubSeq(s, 1, Len(s) - 1))
    ELSE s

\* str.strip()
Strip(s) == RStrip(LStrip(s))

\* sep in s
Contains(s, sep) == \E i \in 1..Len(s) : s[i] = sep

\* s.split(sep): the pieces between the separators, in order
RECURSIVE Split(_, _)
Split(s, sep) ==
    IF ~Contains(s, sep)
    THEN <<s>>
    ELSE LET i == CHOOSE k \in 1..Len(s) :
                      s[k] = sep /\ \A j \in 1..(k - 1) : s[j] # sep
         IN <<SubSeq(s, 1, i - 1)>> \o Split(SubSeq(s, i + 1, Len(s)), sep)

\* str(x) of an attribute value: a string is itself, a NULL attribute prints
\* as the text NULL
Str(x) == IF x = NULL THEN <<"N","U","L","L">> ELSE x

HSG == {<<"A">>, <<"B">>, <<"C">>, <<"D">>}

---------------------------------------------------------------------------
(* parse_soil_group of the CN calculator: an invalid group becomes 'd'.    *)

CnParseDefaultToA(raw) ==
    LET stripped == Upper(Strip(Str(raw)))
        parts == Split(stripped, "/")
        soil_group == IF Contains(stripped, "/") /\ Len(parts) >= 2
                      THEN Strip(parts[2])
                      ELSE stripped
    IN IF soil_group \in HSG THEN Lower(soil_group) ELSE <<"a">>

CnParseFirstToken(raw) ==
    LET stripped == Upper(Strip(Str(raw)))
        parts == Split(stripped, "/")
        soil_group == IF Contains(stripped, "/") /\ Len(parts) >= 2
                      THEN Strip(parts[1])
                      ELSE stripped
    IN IF soil_group \in HSG THEN Lower(soil_group) ELSE <<"d">>

\* a deviating parser, which does not upper-case the text before it looks
\* for the group among A, B, C, D
CnParseCaseSensitive(raw) ==
    LET stripped == Strip(Str(raw))
        parts == Split(stripped, "/")
        soil_group == IF Contains(stripped, "/") /\ Len(parts) >= 2
                      THEN Strip(parts[2])
                      ELSE stripped
    IN IF soil_group \in HSG THEN Lower(soil_group) ELSE <<"d">>

CnParseSoilGroup(raw) ==
    LET stripped == Upper(Strip(Str(raw)))
        parts == Split(stripped, "/")
        soil_group == IF Contains(stripped, "/") /\ Len(parts) >= 2
                      THEN Strip(parts[2])
                      ELSE stripped
    IN IF soil_group \in HSG THEN Lower(soil_group) ELSE <<"d">>

(* parse_soil_group of the Rational-C calculator: an empty, NULL or        *)
(* invalid group is None.                                                  *)

CParseSoilGroup(raw) ==
    IF raw = <<>> \/ raw = NULL \/ raw = None
    THEN None
    ELSE LET stripped == Upper(Strip(Str(raw)))
             parts == Split(stripped, "/")
             soil_group == IF Contains(stripped, "/") /\ Len(parts) > 1
                           THEN Strip(parts[2])
                           ELSE stripped
         IN IF soil_group \in HSG THEN Lower(soil_group) ELSE None

---------------------------------------------------------------------------
(* Numbers.                                                                *)

Max(a, b) == IF a >= b THEN a ELSE b
Min(a, b) == IF a <= b THEN a ELSE b

RECURSIVE Gcd(_, _)
Gcd(a, b) == IF b = 0 THEN a ELSE Gcd(b, a % b)

\* the quotient num / den (den > 0, num >= 0) as a reduced fraction
Ratio(num, den) == LET g == Gcd(num, den) IN <<num \div g, den \div g>>

\* round(num / den * scale) to an integer, halves to the even neighbour
RoundScaled(num, den, scale) ==
    LET q == (num * scale) \div den
        r == (num * scale) % den
    IN IF 2 * r > den \/ (2 * r = den /\ q % 2 = 1) THEN q + 1 ELSE q

SqftPerAcre == 43560

\* acres_from_sqft
AcresFromSqft(area_sqft) == area_sqft \div SqftPerAcre

---------------------------------------------------------------------------
(* Lookup tables.  The CN table maps (landuse, soil group) to a curve      *)
(* number; the Rational-C table is indexed by landuse and has one column   *)
(* per soil group and slope category, its values in hundredths.            *)

SoilGroups == {<<"a">>, <<"b">>, <<"c">>, <<"d">>}

\* the rows of the CN lookup file: landuse, a, b, c, d
CnLookupRows ==
    <<[landuse |-> <<"R","e","s"," ">>, a |-> 80, b |-> 85, c |-> 90, d |-> 95],
      [landuse |-> <<"C","o","m">>, a |-> 89, b |-> 92, c |-> 94, d |-> 96]>>

CnRowValue(row, soil_group) ==
    CASE soil_group = <<"a">> -> row.a
      [] soil_group = <<"b">> -> row.b
      [] soil_group = <<"c">> -> row.c
      [] soil_group = <<"d">> -> row.d

\* the keys of cn_lookup: (str(row.landuse).strip().lower(), soil group)
CnLookupKeys ==
    {<<Lower(Strip(CnLookupRows[i].landuse)), g>> :
        i \in DOMAIN CnLookupRows, g \in SoilGroups}

\* cn_lookup[key]: a later row of the file overwrites an earlier one
CnLookup(key) ==
    LET rows == {i \in DOMAIN CnLookupRows :
                    Lower(Strip(CnLookupRows[i].landuse)) = key[1]}
        last == CHOOSE i \in rows : \A j \in rows : j <= i
    IN CnRowValue(CnLookupRows[last], key[2])

SlopeSuffixes ==
    {<<"_","0","-","2","%">>, <<"_","2","-","6","%">>, <<"_","6","%","+">>}

\* the rows of the Rational-C lookup file, values in hundredths
CLookupRows ==
    <<[landuse |-> <<" ","R","E","S">>,
       cols |-> [col \in {g \o sfx : g \in SoilGroups, sfx \in SlopeSuffixes} |->
                    (CASE col[1] = "a" -> 20 [] col[1] = "b" -> 30
                       [] col[1] = "c" -> 40 [] col[1] = "d" -> 50)
                    + (CASE col[3] = "0" -> 0 [] col[3] = "2" -> 5
                         [] col[3] = "6" -> 10)]],
      [landuse |-> <<"C","o","m">>,
       cols |-> [col \in {g \o sfx : g \in SoilGroups, sfx \in SlopeSuffixes} |->
                    (CASE col[1] = "a" -> 71 [] col[1] = "b" -> 72
                       [] col[1] = "c" -> 73 [] col[1] = "d" -> 74)
                    + (CASE col[3] = "0" -> 0 [] col[3] = "2" -> 5
                         [] col[3] = "6" -> 10)]]>>

\* read_lookup: the landuse column stripped and lower-cased, made the index
CLookupIndex == {Lower(Strip(CLookupRows[i].landuse)) : i \in DOMAIN CLookupRows}

\* the outcome of a table access: a value, or the KeyError pandas raises
Found(v) == [found |-> TRUE, value |-> v]
KeyError == [found |-> FALSE, value |-> 0]

\* c_lookup_df.loc[landuse_code, column]: KeyError when the row or the
\* column is missing
CLookupLoc(landuse_code, column) ==
    IF landuse_code \notin CLookupIndex
    THEN KeyError
    ELSE LET i == CHOOSE k \in DOMAIN CLookupRows :
                      Lower(Strip(CLookupRows[k].landuse)) = landuse_code
         IN IF column \in DOMAIN CLookupRows[i].cols
            THEN Found(CLookupRows[i].cols[column])
            ELSE KeyError

\* the fixed C of a fragment with no recognized soil group (0.95)
DefaultC == 95

---------------------------------------------------------------------------
(* The aggregation loops.                                                  *)

\* Two deviating accumulations, against which the properties of the run are
\* tested: one adds the bare value instead of value * area, the other
\* assigns where the loop adds.
AccumulateUnweighted(data, zone, area_acres, value) ==
    LET entry == IF zone \in DOMAIN data
                 THEN data[zone]
                 ELSE [total_area |-> 0, area_sum |-> 0]
        new == [total_area |-> entry.total_area + area_acres,
                area_sum |-> entry.area_sum + value]
    IN [z \in DOMAIN data \cup {zone} |-> IF z = zone THEN new ELSE data[z]]

AccumulateOverwrite(data, zone, area_acres, value) ==
    LET new == [total_area |-> area_acres, area_sum |-> value * area_acres]
    IN [z \in DOMAIN data \cup {zone} |-> IF z = zone THEN new ELSE data[z]]

\* a deviating accumulation, in which the zones share one accumulator: the
\* fragment is added to the entry of every zone seen so far
AccumulateShared(data, zone, area_acres, value) ==
    [z \in DOMAIN data \cup {zone} |->
        LET entry == IF z \in DOMAIN data
                     THEN data[z]
                     ELSE [total_area |-> 0, area_sum |-> 0]
        IN [total_area |-> entry.total_area + area_acres,
            area_sum |-> entry.area_sum + value * area_acres]]

\* subbasin_data[zone] += (area, value * area), creating the entry first
Accumulate(data, zone, area_acres, value) ==
    LET entry == IF zone \in DOMAIN data
                 THEN data[zone]
                 ELSE [total_area |-> 0, area_sum |-> 0]
        new == [total_area |-> entry.total_area + area_acres,
                area_sum |-> entry.area_sum + value * area_acres]
    IN [z \in DOMAIN data \cup {zone} |-> IF z = zone THEN new ELSE data[z]]

\* A deviating CN iteration: a key missing from the table is counted as a
\* fragment of value 0 instead of being skipped.
CnStepMissAsZero(acc, f, i) ==
    LET landuse_code == Lower(Strip(Str(f.landuse)))
        raw == Strip(Str(f.soil))
        soil_group == CnParseSoilGroup(raw)
        area_acres == AcresFromSqft(f.area)
        cn_key == <<landuse_code, soil_group>>
        cn_value == IF cn_key \in CnLookupKeys THEN CnLookup(cn_key) ELSE 0
    IN [data |-> Accumulate(acc.data, f.zone, area_acres, cn_value),
        details |-> Append(acc.details,
            [zone |-> f.zone, landuse |-> landuse_code,
             soil_group |-> Upper(soil_group), soil_group_original |-> raw,
             area_acres |-> area_acres, value |-> cn_value,
             product |-> cn_value * area_acres]),
        warnings |-> acc.warnings]

\* A deviating CN iteration: the land-use text of the fragment is trimmed but
\* not lower-cased.
CnStepCaseSensitive(acc, f, i) ==
    LET landuse_code == Strip(Str(f.landuse))
        raw == Strip(Str(f.soil))
        soil_group == CnParseSoilGroup(raw)
        area_acres == AcresFromSqft(f.area)
        cn_key == <<landuse_code, soil_group>>
    IN IF cn_key \notin CnLookupKeys
       THEN [acc EXCEPT !.warnings = @ \cup {i}]
       ELSE LET cn_value == CnLookup(cn_key)
            IN [data |-> Accumulate(acc.data, f.zone, area_acres, cn_value),
                details |-> Append(acc.details,
                    [zone |-> f.zone, landuse |-> landuse_code,
                     soil_group |-> Upper(soil_group), soil_group_original |-> raw,
                     area_acres |-> area_acres, value |-> cn_value,
                     product |-> cn_value * area_acres]),
                warnings |-> acc.warnings]

\* One iteration of the CN loop on feature f, the i-th of the layer.
\* acc = [data, details, warnings].
CnStep(acc, f, i) ==
    LET landuse_code == Lower(Strip(Str(f.landuse)))
        raw == Strip(Str(f.soil))
        soil_group == CnParseSoilGroup(raw)
        area_acres == AcresFromSqft(f.area)
        cn_key == <<landuse_code, soil_group>>
    IN IF cn_key \notin CnLookupKeys
       THEN [acc EXCEPT !.warnings = @ \cup {i}]
       ELSE LET cn_value == CnLookup(cn_key)
            IN [data |-> Accumulate(acc.data, f.zone, area_acres, cn_value),
                details |-> Append(acc.details,
                    [zone |-> f.zone, landuse |-> landuse_code,
                     soil_group |-> Upper(soil_group), soil_group_original |-> raw,
                     area_acres |-> area_acres, value |-> cn_value,
                     product |-> cn_value * area_acres]),
                warnings |-> acc.warnings]

\* Two deviating Rational-C iterations: one consults the table before it
\* looks at the soil group, so that a landuse missing from the table is a miss
\* whatever the soil; the other writes a detail row for a miss.
CStepLookupFirst(acc, f, i, suffix) ==
    LET landuse_code == Lower(Strip(Str(f.landuse)))
        soil_group == CParseSoilGroup(f.soil)
        area_acres == AcresFromSqft(f.area)
        looked == IF landuse_code \notin CLookupIndex
                  THEN KeyError
                  ELSE IF soil_group = None
                       THEN Found(DefaultC)
                       ELSE CLookupLoc(landuse_code, soil_group \o suffix)
        c_value == looked.value
    IN IF ~looked.found
       THEN [acc EXCEPT !.warnings = @ \cup {i}]
       ELSE [data |-> Accumulate(acc.data, f.zone, area_acres, c_value),
             details |-> Append(acc.details,
                 [zone |-> f.zone, landuse |-> landuse_code,
                  soil_group |-> IF soil_group = None THEN <<"N","/","A">>
                                 ELSE Upper(soil_group),
                  soil_group_original |-> Strip(Str(f.soil)),
                  area_acres |-> area_acres, value |-> c_value,
                  product |-> c_value * area_acres]),
             warnings |-> acc.warnings]

CStepRowOnMiss(acc, f, i, suffix) ==
    LET landuse_code == Lower(Strip(Str(f.landuse)))
        soil_group == CParseSoilGroup(f.soil)
        area_acres == AcresFromSqft(f.area)
        looked == IF soil_group = None
                  THEN Found(DefaultC)
                  ELSE CLookupLoc(landuse_code, soil_group \o suffix)
        c_value == looked.value
        row == [zone |-> f.zone, landuse |-> landuse_code,
                soil_group |-> IF soil_group = None THEN <<"N","/","A">>
                               ELSE Upper(soil_group),
                soil_group_original |-> Strip(Str(f.soil)),
                area_acres |-> area_acres, value |-> c_value,
                product |-> c_value * area_acres]
    IN IF ~looked.found
       THEN [acc EXCEPT !.warnings = @ \cup {i}, !.details = Append(@, row)]
       ELSE [data |-> Accumulate(acc.data, f.zone, area_acres, c_value),
             details |-> Append(acc.details, row),
             warnings |-> acc.warnings]

\* One iteration of the Rational-C loop.
CStep(acc, f, i, suffix) ==
    LET landuse_code == Lower(Strip(Str(f.landuse)))
        soil_group == CParseSoilGroup(f.soil)
        area_acres == AcresFromSqft(f.area)
        looked == IF soil_group = None
                  THEN Found(DefaultC)
                  ELSE CLookupLoc(landuse_code, soil_group \o suffix)
        c_value == looked.value
    IN IF ~looked.found
       THEN [acc EXCEPT !.warnings = @ \cup {i}]
       ELSE [data |-> Accumulate(acc.data, f.zone, area_acres, c_value),
             details |-> Append(acc.details,
                 [zone |-> f.zone, landuse |-> landuse_code,
                  soil_group |-> IF soil_group = None THEN <<"N","/","A">>
                                 ELSE Upper(soil_group),
                  soil_group_original |-> Strip(Str(f.soil)),
                  area_acres |-> area_acres, value |-> c_value,
                  product |-> c_value * area_acres]),
             warnings |-> acc.warnings]

Step(calc, suffix, acc, f, i) ==
    IF calc = "CN" THEN CnStep(acc, f, i) ELSE CStep(acc, f, i, suffix)

EmptyAcc == [data |-> <<>>, details |-> <<>>, warnings |-> {}]

\* The whole loop over a feature sequence, from feature i on.
RECURSIVE RunFrom(_, _, _, _, _)
RunFrom(calc, suffix, fs, i, acc) ==
    IF i > Len(fs)
    THEN acc
    ELSE RunFrom(calc, suffix, fs, i + 1, Step(calc, suffix, acc, fs[i], i))

RunLoop(calc, suffix, fs) == RunFrom(calc, suffix, fs, 1, EmptyAcc)

\* The attribute written to the output layer for each zone of the zone
\* layer: the composite and the area, or NULL for both.
LayerAttributes(data, zones) ==
    [z \in zones |->
        IF z \in DOMAIN data /\ data[z].total_area > 0
        THEN [comp |-> Ratio(data[z].area_sum, data[z].total_area),
              area |-> <<data[z].total_area>>]
        ELSE [comp |-> None, area |-> NoValue]]

\* The composite printed under each zone header of cn_calculations_detailed.csv
\* (in hundredths): one header per zone that has a detail row.
CnDetailedReport(data, details) ==
    [z \in {details[k].zone : k \in DOMAIN details} |->
        IF data[z].total_area > 0
        THEN RoundScaled(data[z].area_sum, data[z].total_area, 100)
        ELSE 0]

\* The composite printed in the summary file for each zone with area,
\* rounded at `scale` digits.
SummaryReport(data, scale) ==
    [z \in {y \in DOMAIN data : data[y].total_area > 0} |->
        RoundScaled(data[z].area_sum, data[z].total_area, scale)]

---------------------------------------------------------------------------
(* An aggregation run.                                                     *)

MaxFeatures == 2
Zones == {1, 2}
LanduseSamples == {<<"R","e","s">>, <<"r","e">>}
SoilSamples == {<<"D","/","a">>, <<"W">>}
AreaSamples == {0, SqftPerAcre, 2 * SqftPerAcre}

FeatureSet ==
    [zone : Zones, landuse : LanduseSamples, soil : SoilSamples, area : AreaSamples]

InitAgg ==
    /\ \/ calculator = "CN" /\ slope_suffix = <<>>
       \/ calculator = "C" /\ slope_suffix \in SlopeSuffixes
    /\ features = <<>>
    /\ pc = "loop"
    /\ subbasin_data = <<>>
    /\ detailed_records = <<>>
    /\ warnings = {}
    /\ output_layer = <<>>
    /\ detailed_csv = <<>>
    /\ summary_csv = <<>>
    /\ SoilIdle
    /\ TcIdle

\* fragments whose land-use text differs from a row of the lookup file in
\* case and surrounding whitespace, or is a prefix, an extension or another
\* near-match of it
MaxCategoryFeatures == 2
CategorySamples ==
    {<<"R","e","s">>, <<" ","R","E","S"," ">>, <<"r","e">>, <<"r","e","s","x">>,
     <<"r"," ","e","s">>, <<"C","O","M">>, <<"c","o","m"," ">>, <<>>}

CategoryFeatureSet ==
    [zone : {1}, landuse : CategorySamples, soil : {<<"B">>, <<"W">>},
     area : {SqftPerAcre}]

\* one iteration of `for feature in final_intersection.getFeatures()`: the
\* layer yields its next feature and the loop body runs on it
ProcessFeature ==
    /\ pc = "loop"
    /\ Len(features) < MaxFeatures
    /\ \E f \in FeatureSet :
          /\ features' = Append(features, f)
          /\ \E acc \in {Step(calculator, slope_suffix,
                               [data |-> subbasin_data, details |-> detailed_records,
                                warnings |-> warnings],
                               f, Len(features) + 1)} :
                /\ subbasin_data' = acc.data
                /\ detailed_records' = acc.details
                /\ warnings' = acc.warnings
    /\ UNCHANGED <<calculator, slope_suffix, pc, output_layer,
                   detailed_csv, summary_csv>>
    /\ UNCHANGED <<soilVars, tcVars, suiteVars>>

\* the same iteration on a layer of the fragments above
ProcessCategoryFeature ==
    /\ pc = "loop"
    /\ Len(features) < MaxCategoryFeatures
    /\ \E f \in CategoryFeatureSet :
          /\ features' = Append(features, f)
          /\ \E acc \in {Step(calculator, slope_suffix,
                               [data |-> subbasin_data, details |-> detailed_records,
                                warnings |-> warnings],
                               f, Len(features) + 1)} :
                /\ subbasin_data' = acc.data
                /\ detailed_records' = acc.details
                /\ warnings' = acc.warnings
    /\ UNCHANGED <<calculator, slope_suffix, pc, output_layer,
                   detailed_csv, summary_csv>>
    /\ UNCHANGED <<soilVars, tcVars, suiteVars>>

\* the layer is exhausted; the rest of CompositeCNDialog.run_calculation
\* writes the output layer, the detailed report and the summary report
CnWriteOutputs ==
    /\ pc = "loop"
    /\ calculator = "CN"
    /\ output_layer' = LayerAttributes(subbasin_data, Zones)
    /\ detailed_csv' = CnDetailedReport(subbasin_data, detailed_records)
    /\ summary_csv' = SummaryReport(subbasin_data, 100)
    /\ pc' = "done"
    /\ UNCHANGED <<calculator, slope_suffix, features, subbasin_data,
                   detailed_records, warnings>>
    /\ UNCHANGED <<soilVars, tcVars, suiteVars>>

\* the layer is exhausted; the rest of RationalCCalculatorDialog.run_calculation:
\* the detailed file holds the detail rows only, the summary is printed with
\* three decimals
CWriteOutputs ==
    /\ pc = "loop"
    /\ calculator = "C"
    /\ output_layer' = LayerAttributes(subbasin_data, Zones)
    /\ detailed_csv' = <<>>
    /\ summary_csv' = SummaryReport(subbasin_data, 10)
    /\ pc' = "done"
    /\ UNCHANGED <<calculator, slope_suffix, features, subbasin_data,
                   detailed_records, warnings>>
    /\ UNCHANGED <<soilVars, tcVars, suiteVars>>

NextAgg == ProcessFeature \/ CnWriteOutputs \/ CWriteOutputs

NextCategory == ProcessCategoryFeature \/ CnWriteOutputs \/ CWriteOutputs

---------------------------------------------------------------------------
(* Real arithmetic of the TC formulas, in fixed point.                     *)
(* A flow length is a whole number of feet, a slope a multiple of          *)
(* 1/SlopeOne, a time a multiple of 1/TcOne minute, runoff and roughness   *)
(* coefficients are hundredths, a curve number is a whole number.          *)
(* x ** y is 2 ** (y * log2 x): Lg is log2 with LgOne steps per unit,      *)
(* Exp2 its inverse; mantissas carry MantBits binary digits.               *)

SlopeOne == 10 ^ 4
TcOne == 10 ^ 4
CoefOne == 10 ^ 2
MantBits == 14
LgBits == 12
MantOne == 2 ^ MantBits
LgOne == 2 ^ LgBits

RECURSIVE FloorLog2(_)
FloorLog2(n) == IF n < 2 THEN 0 ELSE 1 + FloorLog2(n \div 2)

\* the binary digits of log2 of a mantissa m in [1, 2), by repeated squaring
RECURSIVE LgFrac(_, _)
LgFrac(m, bits) ==
    IF bits = 0
    THEN 0
    ELSE LET sq == (m * m) \div MantOne
         IN IF sq >= 2 * MantOne
            THEN 2 ^ (bits - 1) + LgFrac(sq \div 2, bits - 1)
            ELSE LgFrac(sq, bits - 1)

\* log2(n) * LgOne for a whole number n >= 1
Lg(n) ==
    LET k == FloorLog2(n)
        m == IF k > MantBits THEN n \div 2 ^ (k - MantBits) ELSE n * 2 ^ (MantBits - k)
    IN k * LgOne + LgFrac(m, LgBits)

\* log2(num / den) * LgOne
LgRatio(num, den) == Lg(num) - Lg(den)

\* 2 ** (2 ** -k) * MantOne for k = 1 .. LgBits
RootsOfTwo == <<23170, 19484, 17867, 17109, 16743, 16562,
                16473, 16428, 16406, 16395, 16390, 16387>>

RECURSIVE ExpFrac(_, _, _)
ExpFrac(fr, k, m) ==
    IF k > LgBits
    THEN m
    ELSE ExpFrac(fr, k + 1,
                 IF (fr \div 2 ^ (LgBits - k)) % 2 = 1
                 THEN (m * RootsOfTwo[k]) \div MantOne
                 ELSE m)

\* 2 ** (y / LgOne), rounded down to a whole number
Exp2(y) ==
    LET ip == y \div LgOne
        m == ExpFrac(y % LgOne, 1, MantOne)
    IN IF ip >= MantBits THEN m * 2 ^ (ip - MantBits)
       ELSE IF ip < 0 - MantBits THEN 0
       ELSE m \div 2 ^ (MantBits - ip)

---------------------------------------------------------------------------
(* The four TC methods.  A calculate() returns a time, or raises.          *)

Returned(v) == [raised |-> FALSE, value |-> v]
Raised == [raised |-> TRUE, value |-> 0]

\* `x or default` on an optional number: None and 0 are both falsy
OrDefault(opt, default) == IF opt = NoValue \/ opt[1] = 0 THEN default ELSE opt[1]

MinSlope == SlopeOne \div 1000
MinTc == 5 * TcOne

\* a deviating floor, which hands back what the formula gave
FloorTcOmitted(tc) == tc

\* max(tc_minutes, 5.0) on what the formula gave
FloorTc(tc) == Max(tc, MinTc)

\* In each method a negative length makes the power (or math.sqrt) fail: the
\* call raises.  A length of 0 makes the formula 0.

\* KirpichMethod.calculate: 0.0078 * L ** 0.77 / S ** 0.385
KirpichCalculate(p) ==
    LET L == p.flow_length_ft
        S == Max(p.slope_ft_ft, MinSlope)
    IN IF L < 0 THEN Raised
       ELSE IF L = 0 THEN Returned(FloorTc(0))
       ELSE Returned(FloorTc(Exp2(LgRatio(78, 10000) + (77 * Lg(L)) \div 100
                                  - (385 * LgRatio(S, SlopeOne)) \div 1000
                                  + Lg(TcOne))))

\* FAAMethod.calculate: 1.8 * (1.1 - C) * sqrt(L / 1000) / sqrt(S)
FAACalculate(p) ==
    LET L == p.flow_length_ft
        S == Max(p.slope_ft_ft, MinSlope)
        C == Max(10, Min(95, OrDefault(p.runoff_coefficient, 50)))
    IN IF L < 0 THEN Raised
       ELSE IF L = 0 THEN Returned(FloorTc(0))
       ELSE Returned(FloorTc(Exp2(LgRatio(18, 10) + LgRatio(110 - C, CoefOne)
                                  + LgRatio(L, 1000) \div 2
                                  - LgRatio(S, SlopeOne) \div 2
                                  + Lg(TcOne))))

\* a deviating SCS method, whose slope floor is 1 percent
SCSCalculateFloorOnePercent(p) ==
    LET L == p.flow_length_ft
        S_percent == Max(p.slope_ft_ft * 100, SlopeOne)
        CN == Max(30, Min(98, OrDefault(p.curve_number, 70)))
    IN IF L < 0 THEN Raised
       ELSE IF L = 0 THEN Returned(FloorTc(0))
       ELSE Returned(FloorTc(Exp2((8 * Lg(L)) \div 10
                                  + (7 * LgRatio(1000 - 9 * CN, CN)) \div 10
                                  - Lg(1900) - LgRatio(S_percent, SlopeOne) \div 2
                                  + LgRatio(167, 100) + Lg(60)
                                  + Lg(TcOne))))

\* a deviating SCS method, which raises 1000 / CN - 8 to the power 0.7
SCSCalculateRetentionPlusOne(p) ==
    LET L == p.flow_length_ft
        S_percent == Max(p.slope_ft_ft * 100, SlopeOne \div 10)
        CN == Max(30, Min(98, OrDefault(p.curve_number, 70)))
    IN IF L < 0 THEN Raised
       ELSE IF L = 0 THEN Returned(FloorTc(0))
       ELSE Returned(FloorTc(Exp2((8 * Lg(L)) \div 10
                                  + (7 * LgRatio(1000 - 8 * CN, CN)) \div 10
                                  - Lg(1900) - LgRatio(S_percent, SlopeOne) \div 2
                                  + LgRatio(167, 100) + Lg(60)
                                  + Lg(TcOne))))

\* SCSLagTimeMethod.calculate: lag = L ** 0.8 * (1000 / CN - 9) ** 0.7
\* / (1900 * sqrt(S_percent)) hours, TC = 1.67 * lag * 60 minutes
SCSCalculate(p) ==
    LET L == p.flow_length_ft
        S_percent == Max(p.slope_ft_ft * 100, SlopeOne \div 10)
        CN == Max(30, Min(98, OrDefault(p.curve_number, 70)))
    IN IF L < 0 THEN Raised
       ELSE IF L = 0 THEN Returned(FloorTc(0))
       ELSE Returned(FloorTc(Exp2((8 * Lg(L)) \div 10
                                  + (7 * LgRatio(1000 - 9 * CN, CN)) \div 10
                                  - Lg(1900) - LgRatio(S_percent, SlopeOne) \div 2
                                  + LgRatio(167, 100) + Lg(60)
                                  + Lg(TcOne))))

\* KerbyMethod.calculate: 1.44 * (n * L / sqrt(S)) ** 0.467
KerbyCalculate(p) ==
    LET L == p.flow_length_ft
        S == Max(p.slope_ft_ft, MinSlope)
        n == Max(2, Min(80, OrDefault(p.roughness_coefficient, 30)))
    IN IF L < 0 THEN Raised
       ELSE IF L = 0 THEN Returned(FloorTc(0))
       ELSE Returned(FloorTc(Exp2(LgRatio(144, 100)
                                  + (467 * (LgRatio(n, CoefOne) + Lg(L)
                                            - LgRatio(S, SlopeOne) \div 2)) \div 1000
                                  + Lg(TcOne))))

---------------------------------------------------------------------------
(* TCParameters, the method factory and TCResults.                         *)

\* `if x and ...` on an optional number: None and 0 are falsy
Truthy(opt) == opt # NoValue /\ opt[1] # 0

\* TCParameters(...): <<p>> for the object, <<>> when __post_init__ raises
\* ValueError.  The roughness coefficient is not looked at.
TCParametersNew(p) ==
    IF p.flow_length_ft <= 0 THEN <<>>
    ELSE IF p.slope_ft_ft <= 0 THEN <<>>
    ELSE IF Truthy(p.curve_number)
            /\ ~(30 <= p.curve_number[1] /\ p.curve_number[1] <= 98) THEN <<>>
    ELSE IF Truthy(p.runoff_coefficient)
            /\ ~(10 <= p.runoff_coefficient[1] /\ p.runoff_coefficient[1] <= 95) THEN <<>>
    ELSE <<p>>

KirpichName == <<"k","i","r","p","i","c","h">>
FaaName == <<"f","a","a">>
ScsName == <<"s","c","s">>
KerbyName == <<"k","e","r","b","y">>

\* TCMethodFactory.get_available_methods
AvailableMethods == {KirpichName, FaaName, ScsName, KerbyName}

\* a deviating factory, which falls back to Kirpich for a name it does not know
CreateMethodFallsBack(name, params) ==
    IF Lower(name) \notin AvailableMethods
    THEN <<[cls |-> KirpichName, parameters |-> params]>>
    ELSE <<[cls |-> Lower(name), parameters |-> params]>>

\* TCMethodFactory.create_method: <<m>> for the instance, <<>> when it raises
\* ValueError
CreateMethod(name, params) ==
    IF Lower(name) \notin AvailableMethods
    THEN <<>>
    ELSE <<[cls |-> Lower(name), parameters |-> params]>>

\* m.calculate()
Calculate(m) ==
    CASE m.cls = KirpichName -> KirpichCalculate(m.parameters)
      [] m.cls = FaaName -> FAACalculate(m.parameters)
      [] m.cls = ScsName -> SCSCalculate(m.parameters)
      [] m.cls = KerbyName -> KerbyCalculate(m.parameters)

\* round(tc_value, 2): a time in hundredths of a minute
RoundTc(tc) == RoundScaled(tc, TcOne, 100)

\* TCResults(subbasin_id, parameters): every result field None
TCResultsNew(subbasin_id, params) ==
    [subbasin_id |-> subbasin_id, parameters |-> params,
     tc_kirpich_min |-> NoValue, tc_faa_min |-> NoValue,
     tc_scs_min |-> NoValue, tc_kerby_min |-> NoValue,
     tc_average_min |-> NoValue, tc_std_dev_min |-> NoValue,
     tc_recommended_min |-> NoValue]

\* the branch of the if/elif chain that stores a method's value
StoreResult(res, name, tc) ==
    CASE Lower(name) = KirpichName -> [res EXCEPT !.tc_kirpich_min = <<tc>>]
      [] Lower(name) = FaaName -> [res EXCEPT !.tc_faa_min = <<tc>>]
      [] Lower(name) = ScsName -> [res EXCEPT !.tc_scs_min = <<tc>>]
      [] Lower(name) = KerbyName -> [res EXCEPT !.tc_kerby_min = <<tc>>]
      [] OTHER -> res

\* method_map.get(method) in calculate_statistics: the name as it was given
MethodMapGet(res, name) ==
    CASE name = KirpichName -> res.tc_kirpich_min
      [] name = FaaName -> res.tc_faa_min
      [] name = ScsName -> res.tc_scs_min
      [] name = KerbyName -> res.tc_kerby_min
      [] OTHER -> NoValue

RECURSIVE SeqSum(_)
SeqSum(xs) == IF xs = <<>> THEN 0 ELSE Head(xs) + SeqSum(Tail(xs))

RECURSIVE SeqMin(_)
SeqMin(xs) == IF Len(xs) = 1 THEN xs[1] ELSE Min(Head(xs), SeqMin(Tail(xs)))

RECURSIVE Insert(_, _)
Insert(x, sorted) ==
    IF sorted = <<>> THEN <<x>>
    ELSE IF x <= Head(sorted) THEN <<x>> \o sorted
    ELSE <<Head(sorted)>> \o Insert(x, Tail(sorted))

RECURSIVE Sorted(_)
Sorted(xs) == IF xs = <<>> THEN <<>> ELSE Insert(Head(xs), Sorted(Tail(xs)))

\* the whole part of a square root
RECURSIVE ISqrt(_)
ISqrt(n) ==
    IF n < 2 THEN n
    ELSE LET r == 2 * ISqrt(n \div 4)
         IN IF (r + 1) * (r + 1) <= n THEN r + 1 ELSE r

\* statistics.mean, as a fraction
Mean(xs) == Ratio(SeqSum(xs), Len(xs))

\* a deviating standard deviation, with n in the denominator
StdevPopulation(xs) ==
    LET n == Len(xs)
        lo == SeqMin(xs)
        ds == [i \in 1..n |-> xs[i] - lo]
        sq == [i \in 1..n |-> ds[i] * ds[i]]
    IN ISqrt((n * SeqSum(sq) - SeqSum(ds) * SeqSum(ds)) \div (n * n))

\* statistics.stdev (n - 1 in the denominator), in hundredths, rounded down;
\* computed on the distances from the smallest value
Stdev(xs) ==
    LET n == Len(xs)
        lo == SeqMin(xs)
        ds == [i \in 1..n |-> xs[i] - lo]
        sq == [i \in 1..n |-> ds[i] * ds[i]]
    IN ISqrt((n * SeqSum(sq) - SeqSum(ds) * SeqSum(ds)) \div (n * (n - 1)))

\* statistics.median, as a fraction
Median(xs) ==
    LET n == Len(xs)
        s == Sorted(xs)
    IN IF n % 2 = 1
       THEN Ratio(s[(n + 1) \div 2], 1)
       ELSE Ratio(s[n \div 2] + s[n \div 2 + 1], 2)

\* the valid_results list of calculate_statistics
RECURSIVE ValidResults(_, _)
ValidResults(res, selected) ==
    IF selected = <<>> THEN <<>>
    ELSE LET tc_value == MethodMapGet(res, Head(selected))
         IN (IF tc_value # NoValue /\ tc_value[1] > 0 THEN tc_value ELSE <<>>)
                \o ValidResults(res, Tail(selected))

\* a deviating calculate_statistics, without the branch for a single value
CalculateStatisticsNeedsTwo(res, selected) ==
    LET valid_results == ValidResults(res, selected)
    IN IF Len(valid_results) >= 2
       THEN [res EXCEPT !.tc_average_min = <<Mean(valid_results)>>,
                        !.tc_std_dev_min = <<Stdev(valid_results)>>,
                        !.tc_recommended_min = <<Median(valid_results)>>]
       ELSE res

\* a deviating calculate_statistics, which reports zeros when nothing is valid
CalculateStatisticsZeroWhenEmpty(res, selected) ==
    LET valid_results == ValidResults(res, selected)
    IN IF Len(valid_results) >= 2
       THEN [res EXCEPT !.tc_average_min = <<Mean(valid_results)>>,
                        !.tc_std_dev_min = <<Stdev(valid_results)>>,
                        !.tc_recommended_min = <<Median(valid_results)>>]
       ELSE IF Len(valid_results) = 1
       THEN [res EXCEPT !.tc_average_min = <<Ratio(valid_results[1], 1)>>,
                        !.tc_std_dev_min = <<0>>,
                        !.tc_recommended_min = <<Ratio(valid_results[1], 1)>>]
       ELSE [res EXCEPT !.tc_average_min = <<Ratio(0, 1)>>,
                        !.tc_std_dev_min = <<0>>,
                        !.tc_recommended_min = <<Ratio(0, 1)>>]

\* TCResults.calculate_statistics
CalculateStatistics(res, selected) ==
    LET valid_results == ValidResults(res, selected)
    IN IF Len(valid_results) >= 2
       THEN [res EXCEPT !.tc_average_min = <<Mean(valid_results)>>,
                        !.tc_std_dev_min = <<Stdev(valid_results)>>,
                        !.tc_recommended_min = <<Median(valid_results)>>]
       ELSE IF Len(valid_results) = 1
       THEN [res EXCEPT !.tc_average_min = <<Ratio(valid_results[1], 1)>>,
                        !.tc_std_dev_min = <<0>>,
                        !.tc_recommended_min = <<Ratio(valid_results[1], 1)>>]
       ELSE res

---------------------------------------------------------------------------
(* The batch run over the subbasin layer.                                  *)
(* A feature carries what the geometry and the DEM give for it: whether    *)
(* the geometry is valid, the length of its flow path in feet (or none)    *)
(* and the two sampled elevations in tenths of a foot (or none).           *)

ElevOne == 10

\* num / den in units of 1 / SlopeOne; a positive quotient stays positive
SlopeOf(elevation_diff, flow_length) ==
    Max((elevation_diff * SlopeOne) \div (ElevOne * flow_length),
        IF elevation_diff > 0 THEN 1 ELSE 0)

\* a deviating loop, which ends at the first method that fails
RECURSIVE RunMethodsStopAtFailure(_, _, _)
RunMethodsStopAtFailure(res, params, selected) ==
    IF selected = <<>> THEN res
    ELSE LET name == Head(selected)
             m == CreateMethod(name, params)
             tc_value == IF m = <<>> THEN Raised ELSE Calculate(m[1])
         IN IF tc_value.raised
            THEN res
            ELSE RunMethodsStopAtFailure(
                     StoreResult(res, name, RoundTc(tc_value.value)),
                     params, Tail(selected))

\* the loop over selected_methods of _calculate_tc_for_feature_multi_method:
\* a method that cannot be created or whose calculate() raises is passed over
RECURSIVE RunMethods(_, _, _)
RunMethods(res, params, selected) ==
    IF selected = <<>> THEN res
    ELSE LET name == Head(selected)
             m == CreateMethod(name, params)
             tc_value == IF m = <<>> THEN Raised ELSE Calculate(m[1])
         IN RunMethods(IF tc_value.raised
                       THEN res
                       ELSE StoreResult(res, name, RoundTc(tc_value.value)),
                       params, Tail(selected))

\* _calculate_tc_for_feature_multi_method: <<r>> for the TCResults r, <<>> for
\* None
CalculateTcForFeature(feature, subbasin_id, selected, curve_number, runoff_coefficient, roughness_coefficient) ==
    IF feature.flow_path = NoValue THEN <<>>
    ELSE IF feature.elevations = NoValue THEN <<>>
    ELSE LET upstream_elev == Max(feature.elevations[1], feature.elevations[2])
             downstream_elev == Min(feature.elevations[1], feature.elevations[2])
             flow_length_ft == Max(feature.flow_path[1], 1)
             elevation_diff_ft == Max(upstream_elev - downstream_elev, 1)
             made == TCParametersNew(
                         [flow_length_ft |-> flow_length_ft,
                          elevation_diff_ft |-> elevation_diff_ft,
                          slope_ft_ft |-> SlopeOf(elevation_diff_ft, flow_length_ft),
                          upstream_elev_ft |-> upstream_elev,
                          downstream_elev_ft |-> downstream_elev,
                          curve_number |-> curve_number,
                          runoff_coefficient |-> runoff_coefficient,
                          roughness_coefficient |-> roughness_coefficient])
         IN IF made = <<>> THEN <<>>
            ELSE <<CalculateStatistics(
                       RunMethods(TCResultsNew(subbasin_id, made[1]), made[1], selected),
                       selected)>>

LowerAll(names) == [i \in DOMAIN names |-> Lower(names[i])]
InSeq(x, xs) == \E i \in DOMAIN xs : xs[i] = x

\* the fields _add_output_fields_multi_method defines for a method list
OutputFields(selected) ==
    {"flow_ft", "elev_ft", "slope_ff", "up_elev", "dn_elev"}
    \cup (IF InSeq(KirpichName, LowerAll(selected)) THEN {"tc_kir"} ELSE {})
    \cup (IF InSeq(FaaName, LowerAll(selected)) THEN {"tc_faa", "runoff_c"} ELSE {})
    \cup (IF InSeq(ScsName, LowerAll(selected)) THEN {"tc_scs", "curve_n"} ELSE {})
    \cup (IF InSeq(KerbyName, LowerAll(selected)) THEN {"tc_kerby", "rough_n"} ELSE {})
    \cup (IF Len(selected) > 1 THEN {"tc_avg", "tc_std", "tc_rec"} ELSE {})

\* field_map of _update_feature_attributes_multi_method
FieldMap(result) ==
    [flow_ft |-> <<result.parameters.flow_length_ft>>,
     elev_ft |-> <<result.parameters.elevation_diff_ft>>,
     slope_ff |-> <<result.parameters.slope_ft_ft>>,
     up_elev |-> <<result.parameters.upstream_elev_ft>>,
     dn_elev |-> <<result.parameters.downstream_elev_ft>>,
     tc_kir |-> result.tc_kirpich_min,
     tc_faa |-> result.tc_faa_min,
     tc_scs |-> result.tc_scs_min,
     tc_kerby |-> result.tc_kerby_min,
     tc_avg |-> result.tc_average_min,
     tc_std |-> result.tc_std_dev_min,
     tc_rec |-> result.tc_recommended_min,
     curve_n |-> result.parameters.curve_number,
     runoff_c |-> result.parameters.runoff_coefficient,
     rough_n |-> result.parameters.roughness_coefficient]

\* the attribute changes _update_feature_attributes_multi_method makes: each
\* field of the layer whose value is not None
AttributeChanges(fields, result) ==
    [f \in {g \in fields : FieldMap(result)[g] # NoValue} |-> FieldMap(result)[f]]

---------------------------------------------------------------------------
(* The TC engine called directly.                                          *)

\* the method names a caller asks for: the four methods in several spellings
\* and a name that is none of them
MethodNameSamples ==
    {KirpichName, Upper(FaaName), ScsName, <<"K","e","r","b","y">>,
     <<"m","a","n","n","i","n","g">>}

LengthSamples == {0 - 5, 0, 1, 50, 500, 5000}
SlopeSamples == {0, 1, 10, 200, SlopeOne}
CurveNumberSamples == {NoValue, <<0>>, <<20>>, <<30>>, <<70>>, <<98>>, <<100>>}
RunoffSamples == {NoValue, <<0>>, <<5>>, <<10>>, <<50>>, <<95>>, <<100>>}
RoughnessSamples == {NoValue, <<0>>, <<1>>, <<30>>, <<90>>}

InitApi ==
    /\ api_pc = "start" /\ parameters = <<>> /\ method_name = <<>>
    /\ method = <<>> /\ tc_minutes = <<>> /\ api_raised = ""

\* parameters = TCParameters(...)
NewTCParameters ==
    /\ api_pc = "start"
    /\ \E L \in LengthSamples, S \in SlopeSamples, cn \in CurveNumberSamples,
          c \in RunoffSamples, n \in RoughnessSamples :
          \E made \in {TCParametersNew(
                          [flow_length_ft |-> L, elevation_diff_ft |-> 0,
                           slope_ft_ft |-> S, upstream_elev_ft |-> 0,
                           downstream_elev_ft |-> 0, curve_number |-> cn,
                           runoff_coefficient |-> c, roughness_coefficient |-> n])} :
             /\ parameters' = made
             /\ api_raised' = IF made = <<>> THEN "ValueError" ELSE ""
             /\ api_pc' = IF made = <<>> THEN "done" ELSE "constructed"
    /\ UNCHANGED <<method_name, method, tc_minutes>>
    /\ UNCHANGED <<soilVars, aggVars, runVars, engVars, suiteVars>>

\* method = TCMethodFactory.create_method(name, parameters)
CallCreateMethod ==
    /\ api_pc = "constructed"
    /\ \E name \in MethodNameSamples :
          \E made \in {CreateMethod(name, parameters[1])} :
             /\ method_name' = name
             /\ method' = made
             /\ api_raised' = IF made = <<>> THEN "ValueError" ELSE ""
             /\ api_pc' = IF made = <<>> THEN "done" ELSE "created"
    /\ UNCHANGED <<parameters, tc_minutes>>
    /\ UNCHANGED <<soilVars, aggVars, runVars, engVars, suiteVars>>

\* tc_minutes = method.calculate()
CallCalculate ==
    /\ api_pc = "created"
    /\ \E tc \in {Calculate(method[1])} :
          /\ tc_minutes' = IF tc.raised THEN <<>> ELSE <<tc.value>>
          /\ api_raised' = IF tc.raised THEN "Exception" ELSE ""
    /\ api_pc' = "done"
    /\ UNCHANGED <<parameters, method_name, method>>
    /\ UNCHANGED <<soilVars, aggVars, runVars, engVars, suiteVars>>

NextApi == NewTCParameters \/ CallCreateMethod \/ CallCalculate

---------------------------------------------------------------------------
(* calculate_tc_for_subbasins.                                             *)

MaxMethods == 2
MaxBasins == 2

\* the sequences over S of length n at most
SeqsUpTo(S, n) == UNION {[1..k -> S] : k \in 0..n}

\* the selected_methods argument: None, or a list of names
SelectedSamples == {NoValue} \cup {<<l>> : l \in SeqsUpTo(MethodNameSamples, MaxMethods)}

\* the curve_number, runoff_coefficient and roughness_coefficient arguments
CoefficientSamples ==
    {[curve_number |-> <<70>>, runoff_coefficient |-> <<50>>,
      roughness_coefficient |-> <<30>>],
     [curve_number |-> <<20>>, runoff_coefficient |-> <<50>>,
      roughness_coefficient |-> <<30>>],
     [curve_number |-> <<0>>, runoff_coefficient |-> NoValue,
      roughness_coefficient |-> <<90>>]}

\* the features of the subbasin layer
BasinSamples ==
    {[geometry_valid |-> FALSE, flow_path |-> NoValue, elevations |-> NoValue],
     [geometry_valid |-> TRUE, flow_path |-> NoValue, elevations |-> NoValue],
     [geometry_valid |-> TRUE, flow_path |-> <<100>>, elevations |-> NoValue],
     [geometry_valid |-> TRUE, flow_path |-> <<100>>, elevations |-> <<50, 0>>],
     [geometry_valid |-> TRUE, flow_path |-> <<3000>>, elevations |-> <<1000, 1300>>],
     [geometry_valid |-> TRUE, flow_path |-> <<1>>, elevations |-> <<20, 20>>]}

InitRun ==
    /\ run_pc = "start"
    /\ run_args \in [dem_valid : BOOLEAN, subbasin_valid : BOOLEAN,
                     feature_count : 0..MaxBasins,
                     selected_methods : SelectedSamples,
                     coefficients : CoefficientSamples]
    /\ subbasins = <<>>
    /\ layer_fields = {} /\ layer_attributes = <<>> /\ edit_buffer = <<>>
    /\ edit_state = "none" /\ results = <<>> /\ csv_rows = <<>>
    /\ return_value = <<>>

\* selected_methods after `if selected_methods is None`
SelectedMethods ==
    IF run_args.selected_methods = NoValue
    THEN <<KirpichName, FaaName>>
    ELSE run_args.selected_methods[1]

\* _validate_inputs returns without raising
InputsValid ==
    /\ run_args.dem_valid
    /\ run_args.subbasin_valid
    /\ run_args.feature_count # 0
    /\ \A i \in DOMAIN SelectedMethods : Lower(SelectedMethods[i]) \in AvailableMethods

\* the except branch of calculate_tc_for_subbasins: roll back when the layer
\* is still editable, return False
FailRun ==
    /\ edit_state' = IF edit_state = "editing" THEN "rolledback" ELSE edit_state
    /\ edit_buffer' = <<>>
    /\ return_value' = <<FALSE>>
    /\ run_pc' = "returned"

\* STEP 1
ValidateInputs ==
    /\ run_pc = "start"
    /\ IF InputsValid
       THEN /\ run_pc' = "validated"
            /\ UNCHANGED <<edit_state, edit_buffer, return_value>>
       ELSE FailRun
    /\ UNCHANGED <<run_args, subbasins, layer_fields, layer_attributes, results, csv_rows>>
    /\ UNCHANGED <<soilVars, aggVars, apiVars, engVars, suiteVars>>

\* STEP 2 and STEP 3: the provider adds the missing fields, or fails to
AddOutputFields ==
    /\ run_pc = "validated"
    /\ \E added \in BOOLEAN :
          IF added
          THEN /\ layer_fields' = OutputFields(SelectedMethods)
               /\ run_pc' = "fields"
               /\ UNCHANGED <<edit_state, edit_buffer, return_value>>
          ELSE /\ FailRun
               /\ UNCHANGED layer_fields
    /\ UNCHANGED <<run_args, subbasins, layer_attributes, results, csv_rows>>
    /\ UNCHANGED <<soilVars, aggVars, apiVars, engVars, suiteVars>>

\* STEP 4, subbasin_layer.startEditing()
StartEditing ==
    /\ run_pc = "fields"
    /\ \E started \in BOOLEAN :
          IF started
          THEN /\ edit_state' = "editing"
               /\ run_pc' = "processing"
               /\ UNCHANGED <<edit_buffer, return_value>>
          ELSE FailRun
    /\ UNCHANGED <<run_args, subbasins, layer_fields, layer_attributes, results, csv_rows>>
    /\ UNCHANGED <<soilVars, aggVars, apiVars, engVars, suiteVars>>

\* a deviating iteration, in which a basin without a result ends the run
ProcessSubbasinAbortsOnFailure ==
    /\ run_pc = "processing"
    /\ Len(subbasins) < run_args.feature_count
    /\ \E feature \in BasinSamples :
          /\ subbasins' = Append(subbasins, feature)
          /\ \E result \in {IF feature.geometry_valid
                           THEN CalculateTcForFeature(
                                    feature, Len(subbasins) + 1, SelectedMethods,
                                    run_args.coefficients.curve_number,
                                    run_args.coefficients.runoff_coefficient,
                                    run_args.coefficients.roughness_coefficient)
                           ELSE <<>>} :
                IF result = <<>>
                THEN /\ FailRun
                     /\ UNCHANGED results
                ELSE /\ results' = Append(results, result[1])
                     /\ edit_buffer' = Append(edit_buffer,
                            [fid |-> Len(subbasins) + 1,
                             changes |-> AttributeChanges(layer_fields, result[1])])
                     /\ UNCHANGED <<run_pc, edit_state, return_value>>
    /\ UNCHANGED <<run_args, layer_fields, layer_attributes, csv_rows>>
    /\ UNCHANGED <<soilVars, aggVars, apiVars, engVars, suiteVars>>

\* STEP 4, one iteration of the loop over subbasin_layer.getFeatures()
ProcessSubbasin ==
    /\ run_pc = "processing"
    /\ Len(subbasins) < run_args.feature_count
    /\ \E feature \in BasinSamples :
          /\ subbasins' = Append(subbasins, feature)
          /\ \E result \in {IF feature.geometry_valid
                           THEN CalculateTcForFeature(
                                    feature, Len(subbasins) + 1, SelectedMethods,
                                    run_args.coefficients.curve_number,
                                    run_args.coefficients.runoff_coefficient,
                                    run_args.coefficients.roughness_coefficient)
                           ELSE <<>>} :
                IF result = <<>>
                THEN UNCHANGED <<results, edit_buffer>>
                ELSE /\ results' = Append(results, result[1])
                     /\ edit_buffer' = Append(edit_buffer,
                            [fid |-> Len(subbasins) + 1,
                             changes |-> AttributeChanges(layer_fields, result[1])])
    /\ UNCHANGED <<run_pc, run_args, layer_fields, layer_attributes, edit_state,
                   csv_rows, return_value>>
    /\ UNCHANGED <<soilVars, aggVars, apiVars, engVars, suiteVars>>

\* a deviating commit, whose outcome is not looked at: after a failed commit
\* the run goes on with the session still open
CommitChangesUnchecked ==
    /\ run_pc = "processing"
    /\ Len(subbasins) = run_args.feature_count
    /\ \E committed \in BOOLEAN :
          IF committed
          THEN /\ layer_attributes' = edit_buffer
               /\ edit_buffer' = <<>>
               /\ edit_state' = "committed"
          ELSE UNCHANGED <<layer_attributes, edit_buffer, edit_state>>
    /\ run_pc' = "committed"
    /\ UNCHANGED <<run_args, subbasins, layer_fields, results, csv_rows, return_value>>
    /\ UNCHANGED <<soilVars, aggVars, apiVars, engVars, suiteVars>>

\* STEP 4, subbasin_layer.commitChanges(); on failure the layer is rolled
\* back and the error goes to the except branch
CommitChanges ==
    /\ run_pc = "processing"
    /\ Len(subbasins) = run_args.feature_count
    /\ \E committed \in BOOLEAN :
          IF committed
          THEN /\ layer_attributes' = edit_buffer
               /\ edit_buffer' = <<>>
               /\ edit_state' = "committed"
               /\ run_pc' = "committed"
               /\ UNCHANGED return_value
          ELSE /\ FailRun
               /\ UNCHANGED layer_attributes
    /\ UNCHANGED <<run_args, subbasins, layer_fields, results, csv_rows>>
    /\ UNCHANGED <<soilVars, aggVars, apiVars, engVars, suiteVars>>

\* a deviating STEP 5, outside the try: the error of a file that cannot be
\* written leaves the call as an exception
SaveResultsRaises ==
    /\ run_pc = "committed"
    /\ IF results = <<>>
       THEN /\ FailRun
            /\ UNCHANGED csv_rows
       ELSE \E written \in BOOLEAN :
               IF written
               THEN /\ csv_rows' = <<results>>
                    /\ return_value' = <<TRUE>>
                    /\ run_pc' = "returned"
                    /\ UNCHANGED <<edit_state, edit_buffer>>
               ELSE /\ run_pc' = "raised"
                    /\ UNCHANGED <<csv_rows, return_value, edit_state, edit_buffer>>
    /\ UNCHANGED <<run_args, subbasins, layer_fields, layer_attributes, results>>
    /\ UNCHANGED <<soilVars, aggVars, apiVars, engVars, suiteVars>>

\* STEP 5: with results the file is written and the call returns True; with
\* none, or when the file cannot be written, it returns False
SaveResults ==
    /\ run_pc = "committed"
    /\ IF results = <<>>
       THEN /\ FailRun
            /\ UNCHANGED csv_rows
       ELSE \E written \in BOOLEAN :
               IF written
               THEN /\ csv_rows' = <<results>>
                    /\ return_value' = <<TRUE>>
                    /\ run_pc' = "returned"
                    /\ UNCHANGED <<edit_state, edit_buffer>>
               ELSE /\ FailRun
                    /\ UNCHANGED csv_rows
    /\ UNCHANGED <<run_args, subbasins, layer_fields, layer_attributes, results>>
    /\ UNCHANGED <<soilVars, aggVars, apiVars, engVars, suiteVars>>

NextRun ==
    \/ ValidateInputs \/ AddOutputFields \/ StartEditing
    \/ ProcessSubbasin \/ CommitChanges \/ SaveResults

InitTc ==
    /\ \/ InitApi /\ RunIdle
       \/ ApiIdle /\ InitRun
    /\ EngIdle
    /\ SuiteIdle
    /\ SoilIdle
    /\ AggIdle

NextTc == NextApi \/ NextRun

---------------------------------------------------------------------------
(* The engine called below the batch entry point: the statistics of one    *)
(* TCResults, the computation for one feature, and a method run on a       *)
(* TCParameters object whose attributes were assigned after construction.  *)

MaxSelected == 3

\* the names handed to calculate_statistics: the keys of its method map and
\* a capitalised spelling
StatNameSamples == AvailableMethods \cup {<<"K","e","r","b","y">>}

\* TCResults(subbasin_id, parameters, tc_kirpich_min=..., ...): the per-method
\* values in hundredths of a minute, the statistics fields at their default
TCResultsSamples ==
    {[TCResultsNew(1, None) EXCEPT !.tc_kirpich_min = k, !.tc_faa_min = f,
                                   !.tc_scs_min = s, !.tc_kerby_min = y] :
        k \in {NoValue, <<1000>>, <<3000>>}, f \in {NoValue, <<0>>, <<2000>>},
        s \in {NoValue, <<1000>>, <<3000>>}, y \in {NoValue, <<1501>>, <<2000>>}}

InitStatistics ==
    /\ eng_pc = "statistics"
    /\ feature_args = <<>>
    /\ selected_methods \in SeqsUpTo(StatNameSamples, MaxSelected)
    /\ tc_results \in {<<r>> : r \in TCResultsSamples}
    /\ lag_hours = <<>> /\ lag_tc = <<>>

\* tc_results.calculate_statistics(selected_methods)
CallCalculateStatistics ==
    /\ eng_pc = "statistics"
    /\ tc_results' = <<CalculateStatistics(tc_results[1], selected_methods)>>
    /\ eng_pc' = "done"
    /\ UNCHANGED <<feature_args, selected_methods, lag_hours, lag_tc>>
    /\ UNCHANGED <<soilVars, aggVars, apiVars, runVars, suiteVars>>

InitFeature ==
    /\ eng_pc = "feature"
    /\ feature_args \in {<<[feature |-> f, coefficients |-> c]>> :
                            f \in BasinSamples, c \in CoefficientSamples}
    /\ selected_methods \in SeqsUpTo(MethodNameSamples, MaxSelected)
    /\ tc_results = <<>>
    /\ lag_hours = <<>> /\ lag_tc = <<>>

\* tc_results = self._calculate_tc_for_feature_multi_method(feature, dem_layer,
\* subbasin_id, selected_methods, curve_number, runoff_coefficient,
\* roughness_coefficient)
CallCalculateTcForFeature ==
    /\ eng_pc = "feature"
    /\ tc_results' = CalculateTcForFeature(
                         feature_args[1].feature, 1, selected_methods,
                         feature_args[1].coefficients.curve_number,
                         feature_args[1].coefficients.runoff_coefficient,
                         feature_args[1].coefficients.roughness_coefficient)
    /\ eng_pc' = "done"
    /\ UNCHANGED <<feature_args, selected_methods, lag_hours, lag_tc>>
    /\ UNCHANGED <<soilVars, aggVars, apiVars, runVars, suiteVars>>

\* parameters.<field> = value on a constructed TCParameters: the dataclass is
\* not frozen and __post_init__ does not run again
SetAttribute ==
    /\ api_pc = "constructed"
    /\ \E p \in {[parameters[1] EXCEPT !.flow_length_ft = v] : v \in LengthSamples}
               \cup {[parameters[1] EXCEPT !.slope_ft_ft = v] : v \in SlopeSamples}
               \cup {[parameters[1] EXCEPT !.curve_number = v] : v \in CurveNumberSamples}
               \cup {[parameters[1] EXCEPT !.runoff_coefficient = v] : v \in RunoffSamples}
               \cup {[parameters[1] EXCEPT !.roughness_coefficient = v] :
                        v \in RoughnessSamples} :
          parameters' = <<p>>
    /\ UNCHANGED <<api_pc, method_name, method, tc_minutes, api_raised>>
    /\ UNCHANGED <<soilVars, aggVars, runVars, engVars, suiteVars>>

\* A lag time is a whole number of 1 / TcOne hours; a converted time is the
\* exact quotient, in 1 / TcOne minutes.
LagSamples == {0, 1, 3, 600, 4167, 10000, 25000}

\* a deviating conversion, which divides the lag by 0.6
ScsLagToTcDividesBySixTenths(tlag_hours) == Ratio(10 * tlag_hours * 60, 6)

\* SCSLagTimeMethod.calculate: tc_minutes = 1.67 * tlag_hours * 60.0
ScsLagToTc(tlag_hours) == Ratio(167 * tlag_hours * 60, 100)

\* TCCalculatorWorker.calculate_basin_tc: lag_minutes = lag_hours * 60,
\* tc_minutes = lag_minutes / 0.6
Tr55LagToTc(lag) ==
    LET lag_minutes == lag * 60
    IN Ratio(10 * lag_minutes, 6)

\* SimplifiedTCWorker.calculate_tc_scs_tr55: tc_hours = lag_hours / 0.6,
\* tc_minutes = tc_hours * 60 (before the bounds of 5 and 1440 minutes)
SimplifiedLagToTc(lag) ==
    LET tc_hours == Ratio(10 * lag, 6)
    IN Ratio(tc_hours[1] * 60, tc_hours[2])

InitConversion ==
    /\ eng_pc = "conversion"
    /\ feature_args = <<>> /\ selected_methods = <<>> /\ tc_results = <<>>
    /\ lag_hours \in {<<lag>> : lag \in LagSamples}
    /\ lag_tc = <<>>

\* the same lag time converted by the three programs
CallLagToTc ==
    /\ eng_pc = "conversion"
    /\ lag_tc' = <<[multi_method |-> ScsLagToTc(lag_hours[1]),
                    standalone |-> Tr55LagToTc(lag_hours[1]),
                    simplified |-> SimplifiedLagToTc(lag_hours[1])]>>
    /\ eng_pc' = "done"
    /\ UNCHANGED <<feature_args, selected_methods, tc_results, lag_hours>>
    /\ UNCHANGED <<soilVars, aggVars, apiVars, runVars, suiteVars>>

InitEngine ==
    /\ \/ InitApi /\ EngIdle
       \/ ApiIdle /\ InitStatistics
       \/ ApiIdle /\ InitFeature
       \/ ApiIdle /\ InitConversion
    /\ RunIdle
    /\ SuiteIdle
    /\ SoilIdle
    /\ AggIdle

NextEngine ==
    \/ NextApi \/ SetAttribute
    \/ CallCalculateStatistics \/ CallCalculateTcForFeature \/ CallLagToTc

---------------------------------------------------------------------------
(* The toolbox controller.  The registry is a dict in insertion order: a   *)
(* sequence of entries.  A tool instance is <<n>> for the n-th object       *)
(* constructed, None is the empty sequence.                                *)

MaxLoads == 4

\* tool_configs of discover_tools: tool id and category, in source order
ToolConfigs ==
    <<[id |-> "cn_calculator", category |-> "Runoff Analysis"],
      [id |-> "c_calculator", category |-> "Runoff Analysis"],
      [id |-> "tc_calculator", category |-> "Watershed Analysis"],
      [id |-> "channel_designer", category |-> "Hydraulic Design"]>>

\* the position of tool_id in the registry, 0 when it is not a key
RegistryIndex(registry, tool_id) ==
    IF \E k \in DOMAIN registry : registry[k].id = tool_id
    THEN CHOOSE k \in DOMAIN registry : registry[k].id = tool_id
    ELSE 0

\* register_tool: self.tools_registry[tool_id] = {...}
RegisterTool(registry, tool_id, config) ==
    LET entry == [id |-> tool_id, config |-> config, instance |-> NoValue,
                  loaded |-> FALSE]
        k == RegistryIndex(registry, tool_id)
    IN IF k = 0 THEN Append(registry, entry) ELSE [registry EXCEPT ![k] = entry]

\* discover_tools: every configuration registered, from the k-th on
RECURSIVE DiscoverTools(_, _)
DiscoverTools(registry, k) ==
    IF k > Len(ToolConfigs)
    THEN registry
    ELSE DiscoverTools(RegisterTool(registry, ToolConfigs[k].id, ToolConfigs[k]), k + 1)

\* create_tool_wrapper: the three calculators are imported from modules of
\* their own and constructed, which raises when the import or the constructor
\* fails; every other tool is a MockTool
CreateToolWrapper(tool_id, config, constructed, fresh) ==
    IF tool_id \in {"cn_calculator", "c_calculator", "tc_calculator"}
    THEN IF constructed THEN Returned(<<fresh>>) ELSE Raised
    ELSE Returned(<<fresh>>)

\* a deviating load_tool, which does not look for an existing instance
LoadToolAlwaysCreates(registry, tool_id, constructed, fresh) ==
    LET k == RegistryIndex(registry, tool_id)
    IN IF k = 0
       THEN [registry |-> registry, returned |-> NoValue, created |-> 0]
       ELSE LET made == CreateToolWrapper(tool_id, registry[k].config,
                                          constructed, fresh)
            IN IF made.raised
               THEN [registry |-> registry, returned |-> NoValue, created |-> 0]
               ELSE [registry |-> [registry EXCEPT ![k].instance = made.value,
                                                   ![k].loaded = TRUE],
                     returned |-> made.value, created |-> 1]

\* load_tool(tool_id): the registry afterwards, the value returned and the
\* number of instances constructed
LoadToolOutcome(registry, tool_id, constructed, fresh) ==
    LET k == RegistryIndex(registry, tool_id)
    IN IF k = 0
       THEN [registry |-> registry, returned |-> NoValue, created |-> 0]
       ELSE IF registry[k].loaded /\ registry[k].instance # NoValue
       THEN [registry |-> registry, returned |-> registry[k].instance,
             created |-> 0]
       ELSE LET made == CreateToolWrapper(tool_id, registry[k].config,
                                          constructed, fresh)
            IN IF made.raised
               THEN [registry |-> registry, returned |-> NoValue, created |-> 0]
               ELSE [registry |-> [registry EXCEPT ![k].instance = made.value,
                                                   ![k].loaded = TRUE],
                     returned |-> made.value, created |-> 1]

\* a deviating get_tool_categories, which starts a new list for every tool
RECURSIVE GetToolCategoriesOverwrites(_, _, _)
GetToolCategoriesOverwrites(registry, k, cats) ==
    IF k > Len(registry)
    THEN cats
    ELSE LET category == registry[k].config.category
             at == IF \E c \in DOMAIN cats : cats[c].category = category
                   THEN CHOOSE c \in DOMAIN cats : cats[c].category = category
                   ELSE 0
             next == IF at = 0
                     THEN Append(cats, [category |-> category,
                                        tools |-> <<registry[k].id>>])
                     ELSE [cats EXCEPT ![at].tools = <<registry[k].id>>]
         IN GetToolCategoriesOverwrites(registry, k + 1, next)

\* get_tool_categories: the dict category -> list of tool ids, both in
\* insertion order, built from the k-th registry entry on
RECURSIVE GetToolCategories(_, _, _)
GetToolCategories(registry, k, cats) ==
    IF k > Len(registry)
    THEN cats
    ELSE LET category == registry[k].config.category
             at == IF \E c \in DOMAIN cats : cats[c].category = category
                   THEN CHOOSE c \in DOMAIN cats : cats[c].category = category
                   ELSE 0
             next == IF at = 0
                     THEN Append(cats, [category |-> category,
                                        tools |-> <<registry[k].id>>])
                     ELSE [cats EXCEPT ![at].tools = Append(@, registry[k].id)]
         IN GetToolCategories(registry, k + 1, next)

\* the tool ids handed to load_tool: the registered ones and another one
ToolIdSamples ==
    {ToolConfigs[k].id : k \in DOMAIN ToolConfigs} \cup {"flood_mapper"}

\* HydroSuiteController(): __init__ ends with discover_tools()
InitSuite ==
    /\ tools_registry = DiscoverTools(<<>>, 1)
    /\ instances_created = 0
    /\ load_log = <<>>
    /\ categories = <<>>
    /\ SoilIdle
    /\ AggIdle
    /\ ApiIdle /\ RunIdle /\ EngIdle

\* controller.load_tool(tool_id)
LoadTool ==
    /\ Len(load_log) < MaxLoads
    /\ \E tool_id \in ToolIdSamples, constructed \in BOOLEAN :
          \E out \in {LoadToolOutcome(tools_registry, tool_id, constructed,
                                       instances_created + 1)} :
             /\ tools_registry' = out.registry
             /\ instances_created' = instances_created + out.created
             /\ load_log' = Append(load_log, [tool_id |-> tool_id,
                                              returned |-> out.returned])
    /\ UNCHANGED categories
    /\ UNCHANGED <<soilVars, aggVars, apiVars, runVars, engVars>>

\* controller.get_tool_categories()
CallGetToolCategories ==
    /\ categories' = <<GetToolCategories(tools_registry, 1, <<>>)>>
    /\ UNCHANGED <<tools_registry, instances_created, load_log>>
    /\ UNCHANGED <<soilVars, aggVars, apiVars, runVars, engVars>>

NextSuite == LoadTool \/ CallGetToolCategories

---------------------------------------------------------------------------
(* The parsers applied to one raw attribute value.                         *)

MaxRawLen == 3
SoilAlphabet == {"A", "B", "C", "D", "a", "d", "W", "/", " "}
RawStrings == UNION {[1..k -> SoilAlphabet] : k \in 0..MaxRawLen}

\* Variables of the other components, held at rest.
InitSoil ==
    /\ soil_group_raw \in RawStrings \cup {NULL}
    /\ cn_soil_group = Unset
    /\ c_soil_group = Unset
    /\ cn_soil_group_twice = Unset
    /\ c_soil_group_twice = Unset
    /\ AggIdle
    /\ TcIdle

\* the CN loop hands parse_soil_group the stripped text of the attribute
CallCnParse ==
    /\ cn_soil_group = Unset
    /\ cn_soil_group' = CnParseSoilGroup(Strip(Str(soil_group_raw)))
    /\ UNCHANGED <<soil_group_raw, c_soil_group, cn_soil_group_twice,
                   c_soil_group_twice>>
    /\ UNCHANGED <<aggVars, tcVars, suiteVars>>

\* the Rational-C loop hands parse_soil_group the attribute itself
CallCParse ==
    /\ c_soil_group = Unset
    /\ c_soil_group' = CParseSoilGroup(soil_group_raw)
    /\ UNCHANGED <<soil_group_raw, cn_soil_group, cn_soil_group_twice,
                   c_soil_group_twice>>
    /\ UNCHANGED <<aggVars, tcVars, suiteVars>>

\* parse_soil_group of the CN calculator, called on what it returned
CallCnParseTwice ==
    /\ cn_soil_group # Unset
    /\ cn_soil_group_twice = Unset
    /\ cn_soil_group_twice' = CnParseSoilGroup(cn_soil_group)
    /\ UNCHANGED <<soil_group_raw, cn_soil_group, c_soil_group,
                   c_soil_group_twice>>
    /\ UNCHANGED <<aggVars, tcVars, suiteVars>>

\* parse_soil_group of the Rational-C calculator, called on what it returned
CallCParseTwice ==
    /\ c_soil_group # Unset
    /\ c_soil_group_twice = Unset
    /\ c_soil_group_twice' = CParseSoilGroup(c_soil_group)
    /\ UNCHANGED <<soil_group_raw, cn_soil_group, c_soil_group,
                   cn_soil_group_twice>>
    /\ UNCHANGED <<aggVars, tcVars, suiteVars>>

NextSoil == CallCnParse \/ CallCParse \/ CallCnParseTwice \/ CallCParseTwice

SpecSoil == InitSoil /\ [][NextSoil]_vars

SpecAgg == InitAgg /\ [][NextAgg]_vars

SpecCategory == InitAgg /\ [][NextCategory]_vars

SpecTc == InitTc /\ [][NextTc]_vars

SpecEngine == InitEngine /\ [][NextEngine]_vars

SpecSuite == InitSuite /\ [][NextSuite]_vars

---------------------------------------------------------------------------
(* Notions the properties below are stated in.                             *)

FirstIndex(s, ch) == CHOOSE k \in 1..Len(s) : s[k] = ch /\ \A j \in 1..(k - 1) : s[j] # ch

\* The token that names the soil group of a raw attribute: the text itself,
\* or, when it holds a '/', what stands between the first '/' and the next
\* one (or the end); trimmed and in upper case.
SoilToken(raw) ==
    LET s == Upper(Strip(Str(raw)))
    IN IF ~Contains(s, "/")
       THEN s
       ELSE LET rest == SubSeq(s, FirstIndex(s, "/") + 1, Len(s))
            IN Strip(IF Contains(rest, "/")
                     THEN SubSeq(rest, 1, FirstIndex(rest, "/") - 1)
                     ELSE rest)

Recognized(raw) == SoilToken(raw) \in HSG

\* The value a fragment is counted with, or KeyError when it is a miss.
FragmentValueOf(calc, suffix, f) ==
    LET lu == Lower(Strip(Str(f.landuse)))
    IN IF calc = "CN"
       THEN LET g == IF Recognized(f.soil) THEN Lower(SoilToken(f.soil)) ELSE <<"d">>
            IN IF <<lu, g>> \in CnLookupKeys THEN Found(CnLookup(<<lu, g>>)) ELSE KeyError
       ELSE IF ~Recognized(f.soil)
            THEN Found(DefaultC)
            ELSE CLookupLoc(lu, Lower(SoilToken(f.soil)) \o suffix)

\* the same, tabulated over the features a layer can hold
FragmentValues ==
    [calc \in {"CN", "C"}, suffix \in SlopeSuffixes \cup {<<>>}, f \in FeatureSet |->
        FragmentValueOf(calc, suffix, f)]
FragmentValue(calc, suffix, f) == FragmentValues[calc, suffix, f]

IsHit(f) == FragmentValue(calculator, slope_suffix, f).found

RECURSIVE SumOf(_, _)
SumOf(fn, S) ==
    IF S = {} THEN 0
    ELSE LET x == CHOOSE y \in S : TRUE IN fn[x] + SumOf(fn, S \ {x})

\* The matched fragments of zone z among the first n features, with their
\* summed area and summed value * area.
MatchedOf(z, n) == {i \in 1..n : features[i].zone = z /\ IsHit(features[i])}
MatchedArea(z, n) ==
    SumOf([i \in MatchedOf(z, n) |-> AcresFromSqft(features[i].area)], MatchedOf(z, n))
MatchedProduct(z, n) ==
    SumOf([i \in MatchedOf(z, n) |->
              FragmentValue(calculator, slope_suffix, features[i]).value
                  * AcresFromSqft(features[i].area)],
          MatchedOf(z, n))

ReportScale == IF calculator = "CN" THEN 100 ELSE 10

EntryOf(data, z) ==
    IF z \in DOMAIN data THEN data[z] ELSE [total_area |-> 0, area_sum |-> 0]

Permuted(fs, p) == [i \in 1..Len(fs) |-> fs[p[i]]]
PermutationsOf(n) == {p \in [1..n -> 1..n] : \A i, j \in 1..n : p[i] = p[j] => i = j}

---------------------------------------------------------------------------
(* Properties of the soil-group parsers (SpecSoil).                        *)

\* the raw text with what stands before its first '/' replaced by `first`
WithFirstToken(raw, first) ==
    first \o SubSeq(raw, FirstIndex(raw, "/"), Len(raw))

\* C4: for a raw soil group holding a '/', both parsers decide from the second
\* '/'-separated token alone: that token in lower case when it is A, B, C or
\* D, the unrecognized outcome otherwise ('d' for CN, None for Rational-C);
\* the first token has no influence.  A/D, B/D and C/D give 'd', 'a' gives
\* 'a', Water is unrecognized.
C4_SplitUsesSecondToken ==
    /\ (soil_group_raw # NULL /\ Contains(soil_group_raw, "/")) =>
          LET token == SoilToken(soil_group_raw)
          IN /\ cn_soil_group # Unset =>
                    cn_soil_group = IF token \in HSG THEN Lower(token) ELSE <<"d">>
             /\ c_soil_group # Unset =>
                    c_soil_group = IF token \in HSG THEN Lower(token) ELSE None
             /\ \A first \in {<<>>, <<"A">>, <<"D">>, <<"W">>, <<" ", "b">>} :
                    /\ cn_soil_group # Unset =>
                           CnParseSoilGroup(Strip(WithFirstToken(soil_group_raw, first)))
                               = cn_soil_group
                    /\ c_soil_group # Unset =>
                           CParseSoilGroup(WithFirstToken(soil_group_raw, first))
                               = c_soil_group
    /\ (cn_soil_group # Unset /\ c_soil_group # Unset) =>
          /\ soil_group_raw \in {<<"A","/","D">>, <<"B","/","D">>, <<"C","/","D">>}
                => cn_soil_group = <<"d">> /\ c_soil_group = <<"d">>
          /\ soil_group_raw = <<"a">> => cn_soil_group = <<"a">> /\ c_soil_group = <<"a">>
          /\ soil_group_raw = <<"W">> => cn_soil_group = <<"d">> /\ c_soil_group = None
    /\ CnParseSoilGroup(<<"W","a","t","e","r">>) = <<"d">>
    /\ CParseSoilGroup(<<"W","a","t","e","r">>) = None

\* C4 witness: both parsers have resolved A/D to 'd'.
C4_Witness ==
    /\ soil_group_raw = <<"A","/","D">>
    /\ cn_soil_group = <<"d">>
    /\ c_soil_group = <<"d">>

---------------------------------------------------------------------------
(* Properties of the aggregation run (SpecAgg).                            *)

\* C1: when the run is done, the composite reported for a zone (output layer
\* attribute, summary report, CN detailed report) is sum(value * area) /
\* sum(area) over exactly the matched fragments of that zone.
C1_CompositeIsWeightedMean ==
    pc = "done" =>
        \A z \in Zones :
            \A A \in {MatchedArea(z, Len(features))} :
                A > 0 =>
                    \A W \in {MatchedProduct(z, Len(features))} :
                        /\ output_layer[z].comp = Ratio(W, A)
                        /\ output_layer[z].area = <<A>>
                        /\ z \in DOMAIN summary_csv
                        /\ summary_csv[z] = RoundScaled(W, A, ReportScale)
                        /\ calculator = "CN" =>
                               /\ z \in DOMAIN detailed_csv
                               /\ detailed_csv[z] = RoundScaled(W, A, 100)

\* C1 witness: a finished run in which one zone holds two matched fragments of
\* different value and different area, and a composite that is no plain mean.
C1_Witness ==
    /\ pc = "done"
    /\ Len(features) = 2
    /\ features[1].zone = features[2].zone
    /\ IsHit(features[1]) /\ IsHit(features[2])
    /\ features[1].area = SqftPerAcre /\ features[2].area = 2 * SqftPerAcre
    /\ FragmentValue(calculator, slope_suffix, features[1]).value
         # FragmentValue(calculator, slope_suffix, features[2]).value
    /\ output_layer[features[1].zone].comp # None

\* C2: a lookup miss is recoverable: the loop never stops early, and after any
\* number of iterations the accumulators and detail rows are those of the same
\* run over the features with the misses taken out.
C2_MissIsSkipped ==
    /\ pc \in {"loop", "done"}
    /\ \A r \in {RunLoop(calculator, slope_suffix,
                         SelectSeq(features, IsHit))} :
          /\ r.data = subbasin_data
          /\ r.details = detailed_records
          /\ r.warnings = {}
          /\ warnings = {i \in 1..Len(features) : ~IsHit(features[i])}

\* C2 witness: a miss was skipped and the feature after it was counted.
C2_Witness ==
    /\ Len(features) = 2
    /\ ~IsHit(features[1]) /\ IsHit(features[2])
    /\ features[1].zone = features[2].zone
    /\ features[1].area > 0 /\ features[2].area > 0
    /\ Len(detailed_records) = 1
    /\ subbasin_data[features[2].zone].total_area = AcresFromSqft(features[2].area)

\* C3 (as claimed): a zone whose matched area is zero shows a null or absent
\* composite in every output, never the number 0.
C3_ZeroAreaIsNullEverywhere ==
    pc = "done" =>
        \A z \in Zones :
            MatchedArea(z, Len(features)) = 0 =>
                /\ output_layer[z].comp = None
                /\ z \notin DOMAIN summary_csv
                /\ z \in DOMAIN detailed_csv => detailed_csv[z] # 0

\* C5: in the CN run a fragment with an unrecognized soil group is looked up
\* under 'd': with (landuse, d) in the table its area and value * area are
\* added exactly as for a 'D' fragment, otherwise it is a miss.
C5_CnUnrecognizedCountsAsD ==
    [][(/\ calculator = "CN"
        /\ Len(features') = Len(features) + 1
        /\ ~Recognized(features'[Len(features')].soil))
       => LET f == features'[Len(features')]
              lu == Lower(Strip(Str(f.landuse)))
              a == AcresFromSqft(f.area)
              old == EntryOf(subbasin_data, f.zone)
              asD == CnStep([data |-> subbasin_data, details |-> detailed_records,
                             warnings |-> warnings],
                            [f EXCEPT !.soil = <<"D">>], Len(features'))
          IN /\ subbasin_data' = asD.data
             /\ warnings' = asD.warnings
             /\ IF <<lu, <<"d">>>> \in CnLookupKeys
                THEN /\ f.zone \in DOMAIN subbasin_data'
                     /\ subbasin_data'[f.zone].total_area = old.total_area + a
                     /\ subbasin_data'[f.zone].area_sum
                            = old.area_sum + CnLookup(<<lu, <<"d">>>>) * a
                     /\ Len(detailed_records') = Len(detailed_records) + 1
                     /\ detailed_records'[Len(detailed_records')].soil_group = <<"D">>
                ELSE /\ subbasin_data' = subbasin_data
                     /\ detailed_records' = detailed_records
                     /\ Len(features') \in warnings'
      ]_vars

\* C5 witness: the CN loop has counted a fragment of unrecognized soil group
\* with the 'd' value of its landuse.
C5_Witness ==
    /\ calculator = "CN"
    /\ Len(features) = 1
    /\ ~Recognized(features[1].soil)
    /\ features[1].area > 0
    /\ features[1].zone \in DOMAIN subbasin_data
    /\ subbasin_data[features[1].zone].area_sum
         = CnLookup(<<Lower(Strip(features[1].landuse)), <<"d">>>>)
             * AcresFromSqft(features[1].area)

\* C6: in the Rational-C run a fragment with an unrecognized soil group always
\* adds its area with the value 0.95 to its zone, whatever its landuse, and is
\* never logged as a miss.
C6_CUnrecognizedCountsAsDefault ==
    [][(/\ calculator = "C"
        /\ Len(features') = Len(features) + 1
        /\ ~Recognized(features'[Len(features')].soil))
       => LET f == features'[Len(features')]
              a == AcresFromSqft(f.area)
              old == EntryOf(subbasin_data, f.zone)
          IN /\ f.zone \in DOMAIN subbasin_data'
             /\ subbasin_data'[f.zone].total_area = old.total_area + a
             /\ subbasin_data'[f.zone].area_sum = old.area_sum + DefaultC * a
             /\ warnings' = warnings
             /\ Len(detailed_records') = Len(detailed_records) + 1
             /\ detailed_records'[Len(detailed_records')].value = DefaultC
             /\ detailed_records'[Len(detailed_records')].area_acres = a
      ]_vars

\* C6 witness: a fragment of unrecognized soil group whose landuse is not in
\* the table was counted with 0.95.
C6_Witness ==
    /\ calculator = "C"
    /\ Len(features) = 1
    /\ ~Recognized(features[1].soil)
    /\ Lower(Strip(features[1].landuse)) \notin CLookupIndex
    /\ features[1].area > 0
    /\ features[1].zone \in DOMAIN subbasin_data
    /\ subbasin_data[features[1].zone].area_sum
         = DefaultC * AcresFromSqft(features[1].area)
    /\ warnings = {}

\* C7: when the run is done over a feature sequence, every permutation of the
\* features gives the same zones, the same total_area and weighted sum per
\* zone, and the same composites.
C7_OrderIndependent ==
    pc = "done" =>
        \A attrs \in {LayerAttributes(subbasin_data, Zones)} :
            \A p \in PermutationsOf(Len(features)) :
                \A r \in {RunLoop(calculator, slope_suffix, Permuted(features, p))} :
                   /\ DOMAIN r.data = DOMAIN subbasin_data
                   /\ \A z \in DOMAIN r.data :
                         /\ r.data[z].total_area = subbasin_data[z].total_area
                         /\ r.data[z].area_sum = subbasin_data[z].area_sum
                   /\ LayerAttributes(r.data, Zones) = attrs

\* C7 witness: the loop has finished over two different matched fragments of
\* one zone, so the two orders are two different runs.
C7_Witness ==
    /\ pc = "done"
    /\ Len(features) = 2
    /\ features[1].zone = features[2].zone
    /\ IsHit(features[1]) /\ IsHit(features[2])
    /\ features[1].area > 0 /\ features[2].area > 0
    /\ features[1].area # features[2].area
    /\ FragmentValue(calculator, slope_suffix, features[1]).value
         # FragmentValue(calculator, slope_suffix, features[2]).value

\* C8: after any prefix of the features, the detail rows are, in order, the
\* counted fragments: per zone as many rows as counted fragments, the rows'
\* areas summing to total_area and their products to the weighted sum; a
\* skipped fragment has no row.
C8_DetailRowsMatchCounted ==
    \A counted \in {{i \in 1..Len(features) : IsHit(features[i])}} :
       /\ Len(detailed_records) = Cardinality(counted)
       /\ \A i \in counted :
             \A row \in {detailed_records[Cardinality({j \in counted : j <= i})]} :
                /\ row.zone = features[i].zone
                /\ row.area_acres = AcresFromSqft(features[i].area)
                /\ row.value = FragmentValue(calculator, slope_suffix, features[i]).value
                /\ row.product = row.value * row.area_acres
       /\ \A z \in Zones :
             \A rows \in {{k \in DOMAIN detailed_records : detailed_records[k].zone = z}} :
                /\ Cardinality(rows) = Cardinality({i \in counted : features[i].zone = z})
                /\ (z \in DOMAIN subbasin_data) = (rows # {})
                /\ SumOf([k \in rows |-> detailed_records[k].area_acres], rows)
                       = EntryOf(subbasin_data, z).total_area
                /\ SumOf([k \in rows |-> detailed_records[k].product], rows)
                       = EntryOf(subbasin_data, z).area_sum

\* C8 witness: a prefix with one skipped and one counted fragment and one row.
C8_Witness ==
    /\ Len(features) = 2
    /\ IsHit(features[1]) /\ ~IsHit(features[2])
    /\ features[1].area > 0
    /\ Len(detailed_records) = 1
    /\ detailed_records[1].product > 0


---------------------------------------------------------------------------
(* Properties of the TC engine (SpecTc).                                   *)

\* the per-method values stored on a TCResults
MethodValues(res) ==
    {res.tc_kirpich_min, res.tc_faa_min, res.tc_scs_min, res.tc_kerby_min} \ {NoValue}

\* C9: every one of the four methods, given a TCParameters object (flow
\* length > 0, slope > 0, coefficients as the constructor admits them),
\* returns, and returns at least 5.0 minutes; so does every per-method value
\* a batch run stores.
C9_MethodsReturnAtLeastFiveMinutes ==
    /\ (api_pc = "done" /\ method # <<>>) =>
          /\ api_raised = ""
          /\ tc_minutes # <<>>
          /\ tc_minutes[1] >= MinTc
    /\ \A i \in DOMAIN results :
          \A v \in MethodValues(results[i]) : v[1] * (TcOne \div 100) >= MinTc

\* C9 witness: Kerby was run on a one-foot flow path, where its formula gives
\* less than 5 minutes, and returned exactly 5.0.
C9_Witness ==
    /\ api_pc = "done"
    /\ method # <<>>
    /\ method[1].cls = KerbyName
    /\ parameters[1].flow_length_ft = 1
    /\ parameters[1].slope_ft_ft = SlopeOne
    /\ tc_minutes = <<MinTc>>

\* the selected method list of the run holds a name that is no method
HasUnknownMethod ==
    /\ run_pc # "idle"
    /\ \E i \in DOMAIN SelectedMethods : Lower(SelectedMethods[i]) \notin AvailableMethods

\* C10: a method name that is none of kirpich, faa, scs, kerby in any letter
\* case is an error: create_method raises and returns no method (and a known
\* name in any case gives that method); a batch run whose list holds such a
\* name returns False without fields, edit session, results or results file.
C10_UnknownMethodIsAnError ==
    /\ method_name # <<>> =>
          IF Lower(method_name) \in AvailableMethods
          THEN /\ method # <<>>
               /\ method[1].cls = Lower(method_name)
               /\ api_pc = "created" => api_raised = ""
          ELSE /\ method = <<>>
               /\ tc_minutes = <<>>
               /\ api_raised = "ValueError"
               /\ api_pc = "done"
    /\ HasUnknownMethod =>
          /\ run_pc \in {"start", "returned"}
          /\ run_pc = "returned" => return_value = <<FALSE>>
          /\ results = <<>> /\ csv_rows = <<>>
          /\ subbasins = <<>>
          /\ layer_fields = {} /\ layer_attributes = <<>>
          /\ edit_state = "none" /\ edit_buffer = <<>>

\* C10 witness: a run over valid layers with features, asked for Kirpich and
\* an unknown method, has returned False with no result.
C10_Witness ==
    /\ run_pc = "returned"
    /\ run_args.dem_valid /\ run_args.subbasin_valid
    /\ run_args.feature_count = 2
    /\ run_args.selected_methods = <<<<KirpichName, <<"m","a","n","n","i","n","g">>>>>>
    /\ return_value = <<FALSE>>
    /\ results = <<>>

---------------------------------------------------------------------------
(* Properties of the statistics of one TCResults (SpecEngine).             *)

\* the field of a TCResults that holds the value of the method called key
StoredValue(res, key) ==
    IF key = KirpichName THEN res.tc_kirpich_min
    ELSE IF key = FaaName THEN res.tc_faa_min
    ELSE IF key = ScsName THEN res.tc_scs_min
    ELSE res.tc_kerby_min

\* The valid values of a call: one for each entry of selected_methods that is
\* spelled as a key of the method map and whose field is set and positive.
ValidPositions(res, selected) ==
    {i \in DOMAIN selected :
        /\ selected[i] \in AvailableMethods
        /\ StoredValue(res, selected[i]) # NoValue
        /\ StoredValue(res, selected[i])[1] > 0}

ValidValue(res, selected) ==
    [i \in ValidPositions(res, selected) |-> StoredValue(res, selected[i])[1]]

\* the k-th smallest of the values x: the least value with k values at or
\* below it
RankValue(x, k) ==
    CHOOSE v \in {x[i] : i \in DOMAIN x} :
        /\ Cardinality({i \in DOMAIN x : x[i] <= v}) >= k
        /\ \A w \in {x[i] : i \in DOMAIN x} :
              Cardinality({i \in DOMAIN x : x[i] <= w}) >= k => v <= w

\* calculate_statistics has been called on tc_results, and has returned
StatisticsDone == eng_pc = "done" /\ feature_args = <<>> /\ lag_hours = <<>>

\* C11: with two or more valid values x_1 .. x_n, calculate_statistics sets
\* the average to sum(x) / n, the standard deviation to the sample standard
\* deviation sqrt((n * sum(x^2) - sum(x)^2) / (n * (n - 1))) (to the hundredth
\* of a minute, rounded down) and recommended to the median: the middle value
\* for an odd n, the mean of the two middle values for an even n.  The values
\* 10, 20, 30 give average 20, standard deviation 10 and recommended 20.
C11_StatisticsOfTwoOrMore ==
    StatisticsDone =>
       \A r \in {tc_results[1]} :
          \A x \in {ValidValue(r, selected_methods)} :
             LET I == DOMAIN x
                 n == Cardinality(I)
                 sum == SumOf(x, I)
                 sumsq == SumOf([i \in I |-> x[i] * x[i]], I)
                 spread == n * sumsq - sum * sum
                 avg == r.tc_average_min
                 sd == r.tc_std_dev_min
                 rec == r.tc_recommended_min
             IN n >= 2 =>
                   /\ avg # NoValue /\ sd # NoValue /\ rec # NoValue
                   /\ avg[1][2] > 0 /\ avg[1][1] * n = sum * avg[1][2]
                   /\ sd[1] >= 0
                   /\ sd[1] * sd[1] * n * (n - 1) <= spread
                   /\ spread < (sd[1] + 1) * (sd[1] + 1) * n * (n - 1)
                   /\ rec[1][2] > 0
                   /\ IF n % 2 = 1
                      THEN rec[1][1] = RankValue(x, (n + 1) \div 2) * rec[1][2]
                      ELSE 2 * rec[1][1] =
                              (RankValue(x, n \div 2) + RankValue(x, n \div 2 + 1))
                              * rec[1][2]
                   /\ {x[i] : i \in I} = {1000, 2000, 3000} /\ n = 3 =>
                         /\ avg = <<(<<2000, 1>>)>>
                         /\ sd = <<1000>>
                         /\ rec = <<(<<2000, 1>>)>>

\* C11 witness: the statistics of Kirpich 30, FAA 20 and SCS 10 minutes, in
\* that order, are average 20, standard deviation 10, recommended 20.
C11_Witness ==
    /\ StatisticsDone
    /\ selected_methods = <<KirpichName, FaaName, ScsName>>
    /\ tc_results[1].tc_kirpich_min = <<3000>>
    /\ tc_results[1].tc_faa_min = <<2000>>
    /\ tc_results[1].tc_scs_min = <<1000>>
    /\ tc_results[1].tc_average_min = <<(<<2000, 1>>)>>
    /\ tc_results[1].tc_std_dev_min = <<1000>>
    /\ tc_results[1].tc_recommended_min = <<(<<2000, 1>>)>>

\* C12: with exactly one valid value v, calculate_statistics sets average to
\* v, the standard deviation to 0 and recommended to v.
C12_StatisticsOfOne ==
    StatisticsDone =>
       \A r \in {tc_results[1]} :
          \A x \in {ValidValue(r, selected_methods)} :
             Cardinality(DOMAIN x) = 1 =>
                \A i \in DOMAIN x :
                   /\ r.tc_average_min # NoValue
                   /\ r.tc_average_min[1][1] = x[i] * r.tc_average_min[1][2]
                   /\ r.tc_std_dev_min = <<0>>
                   /\ r.tc_recommended_min # NoValue
                   /\ r.tc_recommended_min[1][1] = x[i] * r.tc_recommended_min[1][2]

\* C12 witness: FAA holds 0 and Kirpich 10 minutes; of the two selected
\* methods only Kirpich has a valid value, and the statistics are 10, 0, 10.
C12_Witness ==
    /\ StatisticsDone
    /\ selected_methods = <<FaaName, KirpichName>>
    /\ tc_results[1].tc_faa_min = <<0>>
    /\ tc_results[1].tc_kirpich_min = <<1000>>
    /\ tc_results[1].tc_average_min = <<(<<1000, 1>>)>>
    /\ tc_results[1].tc_std_dev_min = <<0>>
    /\ tc_results[1].tc_recommended_min = <<(<<1000, 1>>)>>

---------------------------------------------------------------------------
(* Properties of the computation for one feature (SpecEngine).             *)

\* _calculate_tc_for_feature_multi_method has been called, and has returned
FeatureDone == eng_pc = "done" /\ feature_args # <<>>

\* create_method knows the name
KnownName(name) == Lower(name) \in AvailableMethods

\* the call of _calculate_tc_for_feature_multi_method of this behaviour, with
\* another method list
FeatureCallWith(selected) ==
    CalculateTcForFeature(feature_args[1].feature, 1, selected,
                          feature_args[1].coefficients.curve_number,
                          feature_args[1].coefficients.runoff_coefficient,
                          feature_args[1].coefficients.roughness_coefficient)

\* C14: a selected method that fails (create_method raises for its name)
\* leaves no value, the other selected methods are computed all the same,
\* and the statistics are those of the other values: the returned TCResults
\* differs from the one the call returns without the failing names in its
\* list in nothing (the list itself is not stored), every selected method
\* that is known has its value, of at least 5 minutes, and no other method
\* has one.
C14_FailedMethodIsLeftOut ==
    FeatureDone =>
       /\ \A without \in {FeatureCallWith(SelectSeq(selected_methods, KnownName))} :
             tc_results = without
       /\ tc_results # <<>> =>
             \A key \in AvailableMethods :
                IF InSeq(key, LowerAll(selected_methods))
                THEN /\ StoredValue(tc_results[1], key) # NoValue
                     /\ StoredValue(tc_results[1], key)[1] >= 500
                ELSE StoredValue(tc_results[1], key) = NoValue

\* C14 witness: Kirpich, an unknown method and SCS were selected, in that
\* order, for a basin with a flow path and elevations; Kirpich and SCS have
\* their values and the statistics are set.
C14_Witness ==
    /\ FeatureDone
    /\ selected_methods = <<KirpichName, <<"m","a","n","n","i","n","g">>, ScsName>>
    /\ tc_results # <<>>
    /\ tc_results[1].tc_kirpich_min # NoValue
    /\ tc_results[1].tc_scs_min # NoValue
    /\ tc_results[1].tc_kirpich_min # tc_results[1].tc_scs_min
    /\ tc_results[1].tc_faa_min = NoValue
    /\ tc_results[1].tc_average_min # NoValue
    /\ tc_results[1].tc_std_dev_min # <<0>>


---------------------------------------------------------------------------
(* Properties of TCParameters and of the batch run (SpecTc).               *)

\* an optional coefficient is None or lies in lo .. hi
InRangeOrNone(opt, lo, hi) == opt = NoValue \/ (lo <= opt[1] /\ opt[1] <= hi)

\* C15: no TCParameters object is created with flow_length <= 0, slope <= 0,
\* or a supplied curve_number outside [30, 98], runoff_coefficient outside
\* [0.1, 0.95] or roughness_coefficient outside [0.02, 0.8]: the constructor
\* raises instead.
C15_OutOfRangeIsRejected ==
    parameters # <<>> =>
       /\ parameters[1].flow_length_ft > 0
       /\ parameters[1].slope_ft_ft > 0
       /\ InRangeOrNone(parameters[1].curve_number, 30, 98)
       /\ InRangeOrNone(parameters[1].runoff_coefficient, 10, 95)
       /\ InRangeOrNone(parameters[1].roughness_coefficient, 2, 80)

\* the feature a result of the run belongs to
BasinOf(result) == subbasins[result.subbasin_id]

\* C16: a basin whose flow length or elevation difference is not positive
\* gets no result, and the flow length and elevation difference a result
\* carries are the derived ones, not floor values put in their place.
C16_InvalidBasinIsAborted ==
    \A i \in DOMAIN results :
       /\ BasinOf(results[i]).flow_path[1] > 0
       /\ BasinOf(results[i]).elevations[1] # BasinOf(results[i]).elevations[2]
       /\ results[i].parameters.flow_length_ft = BasinOf(results[i]).flow_path[1]
       /\ results[i].parameters.elevation_diff_ft =
             Max(BasinOf(results[i]).elevations[1], BasinOf(results[i]).elevations[2])
             - Min(BasinOf(results[i]).elevations[1], BasinOf(results[i]).elevations[2])

\* what a basin yields when it is computed by itself, as basin 0: its
\* TCResults and the attribute changes they make on a layer with the fields
\* of the method list; tabulated over the basins, method lists and
\* coefficients of a run
BasinResults ==
    CHOOSE table \in
        {[selected \in SeqsUpTo(MethodNameSamples, MaxMethods)
                          \cup {<<KirpichName, FaaName>>} |->
            [c \in CoefficientSamples |->
               [f \in BasinSamples |->
                  LET alone == IF f.geometry_valid
                               THEN CalculateTcForFeature(
                                        f, 0, selected, c.curve_number,
                                        c.runoff_coefficient, c.roughness_coefficient)
                               ELSE <<>>
                  IN IF alone = <<>> THEN <<>>
                     ELSE <<[result |-> alone[1],
                             changes |-> AttributeChanges(OutputFields(selected),
                                                          alone[1])]>>]]]} :
           table = table

\* what the i-th basin of the run yields when it is computed by itself
BasinResult(i) == BasinResults[SelectedMethods][run_args.coefficients][subbasins[i]]

\* the entries of an attribute store (edit buffer or layer) for feature i
EntriesFor(store, i) == {k \in DOMAIN store : store[k].fid = i}

\* C17: in a batch run a basin that yields nothing (invalid geometry, no flow
\* path, no elevations, parameters that fail validation) has no result and no
\* attribute change, every basin that yields a result has exactly that
\* result, in the results and in the attribute changes, whatever the other
\* basins are, and a failing basin does not end the run: the edit session is
\* rolled back only after all basins were processed.
C17_FailingBasinIsIsolated ==
    run_pc \in {"processing", "committed", "returned"} =>
       /\ subbasins # <<>> => layer_fields = OutputFields(SelectedMethods)
       /\ \A i \in DOMAIN subbasins :
             \A alone \in {BasinResult(i)} :
                \A mine \in {{k \in DOMAIN results : results[k].subbasin_id = i}} :
                   IF alone = <<>>
                   THEN /\ mine = {}
                        /\ EntriesFor(edit_buffer, i) = {}
                        /\ EntriesFor(layer_attributes, i) = {}
                   ELSE /\ Cardinality(mine) = 1
                        /\ \A k \in mine :
                              results[k] = [alone[1].result EXCEPT !.subbasin_id = i]
                        /\ edit_state \in {"editing", "committed"} =>
                              \A store \in {IF edit_state = "committed"
                                             THEN layer_attributes ELSE edit_buffer} :
                                 \A entries \in {EntriesFor(store, i)} :
                                    /\ Cardinality(entries) = 1
                                    /\ \A k \in entries :
                                          store[k].changes = alone[1].changes
       /\ \A k \in DOMAIN results : results[k].subbasin_id \in DOMAIN subbasins
       /\ edit_state = "rolledback" => Len(subbasins) = run_args.feature_count
       /\ run_pc \in {"committed", "returned"} /\ edit_state = "committed" =>
             Len(subbasins) = run_args.feature_count

\* C17 witness: a finished run of two basins, the first without elevations,
\* the second with a result that is in the results file and on the layer.
C17_Witness ==
    /\ run_pc = "returned"
    /\ return_value = <<TRUE>>
    /\ Len(subbasins) = 2
    /\ subbasins[1].geometry_valid
    /\ subbasins[1].flow_path # NoValue
    /\ subbasins[1].elevations = NoValue
    /\ Len(results) = 1
    /\ results[1].subbasin_id = 2
    /\ csv_rows = <<results>>
    /\ Len(layer_attributes) = 1
    /\ layer_attributes[1].fid = 2


---------------------------------------------------------------------------
(* Properties of the four formulas (SpecEngine, SpecTc).                   *)
(* The formulas as the specification tables them, on a flow length L > 0   *)
(* in feet, a slope S in units of 1 / SlopeOne and a coefficient in        *)
(* hundredths; the result is in units of 1 / TcOne minute.                 *)

\* 0.0078 * L^0.77 / S^0.385
KirpichFormula(L, S) ==
    Exp2(LgRatio(78, 10000) + (77 * Lg(L)) \div 100
         - (385 * LgRatio(S, SlopeOne)) \div 1000 + Lg(TcOne))

\* 1.8 * (1.1 - C) * sqrt(L / 1000) / sqrt(S)
FaaFormula(L, S, C) ==
    Exp2(LgRatio(18, 10) + LgRatio(110 - C, CoefOne) + LgRatio(L, 1000) \div 2
         - LgRatio(S, SlopeOne) \div 2 + Lg(TcOne))

\* log2 of the SCS lag in hours, L^0.8 * base^0.7 / (1900 * sqrt(S_pct)), for
\* the base base_num / base_den and the slope S_pct in percent
ScsLagHoursLg(L, S_pct, base_num, base_den) ==
    (8 * Lg(L)) \div 10 + (7 * LgRatio(base_num, base_den)) \div 10
    - Lg(1900) - LgRatio(S_pct, SlopeOne) \div 2

\* 1.67 * lag * 60
ScsFormula(L, S_pct, base_num, base_den) ==
    Exp2(ScsLagHoursLg(L, S_pct, base_num, base_den)
         + LgRatio(167, 100) + Lg(60) + Lg(TcOne))

\* 1.44 * (n * L / sqrt(S))^0.467
KerbyFormula(L, S, n) ==
    Exp2(LgRatio(144, 100)
         + (467 * (LgRatio(n, CoefOne) + Lg(L) - LgRatio(S, SlopeOne) \div 2)) \div 1000
         + Lg(TcOne))

\* the coefficient of the parameters object that a method is about
SuppliedCoefficient(m) ==
    CASE m.cls = KirpichName -> NoValue
      [] m.cls = FaaName -> m.parameters.runoff_coefficient
      [] m.cls = ScsName -> m.parameters.curve_number
      [] m.cls = KerbyName -> m.parameters.roughness_coefficient

CoefficientRange(m) ==
    CASE m.cls = KirpichName -> <<0, 0, 0>>
      [] m.cls = FaaName -> <<10, 95, 50>>
      [] m.cls = ScsName -> <<30, 98, 70>>
      [] m.cls = KerbyName -> <<2, 80, 30>>

Clamp(v, lo, hi) == Min(Max(v, lo), hi)

\* the formula of method m on its flow length, the slope S (a fraction) and
\* the coefficient coef, floored at 5 minutes
FlooredFormula(m, S, coef) ==
    LET L == m.parameters.flow_length_ft
        raw == CASE L = 0 -> 0
                 [] L > 0 /\ m.cls = KirpichName -> KirpichFormula(L, S)
                 [] L > 0 /\ m.cls = FaaName -> FaaFormula(L, S, coef)
                 [] L > 0 /\ m.cls = ScsName ->
                       ScsFormula(L, 100 * S, 1000 - 9 * coef, coef)
                 [] L > 0 /\ m.cls = KerbyName -> KerbyFormula(L, S, coef)
    IN Max(raw, MinTc)

\* calculate() has been called on a method whose flow length is not negative
CalculateDone ==
    /\ api_pc = "done" /\ method # <<>>
    /\ method[1].parameters.flow_length_ft >= 0

\* the coefficient calculate() works with: the default for None and for 0,
\* else the value brought into the range
CoefficientUsed(m) ==
    LET r == CoefficientRange(m)
        c == SuppliedCoefficient(m)
    IN IF c = NoValue \/ c[1] = 0 THEN r[3] ELSE Clamp(c[1], r[1], r[2])

\* C18: each of the four methods evaluates its formula on the slope
\* max(slope, 0.001), the same floor in all four (for SCS as 0.1 percent), so
\* a slope of 0 or below the floor gives the value of slope 0.001 and no
\* error; a steeper slope gives a shorter time unless the 5-minute floor
\* holds it.
C18_SlopeFloorIsTheSame ==
    CalculateDone =>
       \A m \in {method[1]} :
          /\ api_raised = ""
          /\ tc_minutes =
                <<FlooredFormula(m, Max(m.parameters.slope_ft_ft, MinSlope),
                                 CoefficientUsed(m))>>
          /\ MinSlope * 1000 = SlopeOne
          /\ m.parameters.flow_length_ft > 0 =>
                \A steeper \in {s \in SlopeSamples :
                                    s > Max(m.parameters.slope_ft_ft, MinSlope)} :
                   \A t \in {FlooredFormula(m, steeper, CoefficientUsed(m))} :
                      t < tc_minutes[1] \/ (t = MinTc /\ tc_minutes[1] = MinTc)

\* C18 witness: the SCS method was run on a 5000 ft flow path with slope 0 and
\* returned a time above the 5-minute floor.
C18_Witness ==
    /\ CalculateDone
    /\ method[1].cls = ScsName
    /\ method[1].parameters.flow_length_ft = 5000
    /\ method[1].parameters.slope_ft_ft = 0
    /\ api_raised = ""
    /\ tc_minutes # <<>>
    /\ tc_minutes[1] > MinTc

\* C19: for every supplied numeric coefficient the formula works with the
\* value clamped to its range: C to [0.1, 0.95] in FAA, CN to [30, 98] in
\* SCS, n to [0.02, 0.8] in Kerby.
C19_CoefficientIsClamped ==
    (CalculateDone /\ SuppliedCoefficient(method[1]) # NoValue) =>
       \A m \in {method[1]} :
          tc_minutes =
             <<FlooredFormula(m, Max(m.parameters.slope_ft_ft, MinSlope),
                              Clamp(SuppliedCoefficient(m)[1],
                                    CoefficientRange(m)[1], CoefficientRange(m)[2]))>>

\* the SCS method has returned, for a positive flow length
ScsDone == CalculateDone /\ method[1].cls = ScsName
           /\ method[1].parameters.flow_length_ft > 0

\* C20, as claimed: the SCS lag is L^0.8 * (R + 1)^0.7 / (1900 * sqrt(S_pct))
\* hours with R = 1000 / CN - 9, so the base of the power 0.7 is
\* 1000 / CN - 8, and TC = 1.67 * lag * 60 minutes before the floor.
C20_ScsRaisesRetentionPlusOne ==
    ScsDone =>
       \A m \in {method[1]} :
          \A CN \in {CoefficientUsed(m)} :
             tc_minutes =
                <<Max(ScsFormula(m.parameters.flow_length_ft,
                                 Max(100 * m.parameters.slope_ft_ft, SlopeOne \div 10),
                                 1000 - 8 * CN, CN), MinTc)>>

\* C20, amended: the base of the power 0.7 is R = 1000 / CN - 9 itself: the
\* lag is L^0.8 * R^0.7 / (1900 * sqrt(S_pct)) hours with S_pct = slope * 100
\* (at least 0.1) and TC = 1.67 * lag * 60 minutes before the 5-minute floor.
C20_ScsRaisesRetention ==
    ScsDone =>
       \A m \in {method[1]} :
          \A CN \in {CoefficientUsed(m)} :
             tc_minutes =
                <<Max(ScsFormula(m.parameters.flow_length_ft,
                                 Max(100 * m.parameters.slope_ft_ft, SlopeOne \div 10),
                                 1000 - 9 * CN, CN), MinTc)>>

\* C20 witness: SCS on 5000 ft, slope 0.02 and CN 70 has returned a time
\* above the floor, between 107 and 111 minutes (the formula gives 108.9).
C20_Witness ==
    /\ ScsDone
    /\ method[1].parameters.flow_length_ft = 5000
    /\ method[1].parameters.slope_ft_ft = 200
    /\ method[1].parameters.curve_number = <<70>>
    /\ tc_minutes # <<>>
    /\ tc_minutes[1] > 107 * TcOne
    /\ tc_minutes[1] < 111 * TcOne


---------------------------------------------------------------------------
(* Properties of the lag-to-TC conversions (SpecEngine).                   *)

ConversionDone == eng_pc = "done" /\ lag_tc # <<>>

\* a = b for two fractions given as <<numerator, denominator>>
SameFraction(a, b) == a[1] * b[2] = b[1] * a[2]

---------------------------------------------------------------------------
(* Further properties of the soil-group parsers (SpecSoil).                *)

\* C22: both parsers are idempotent and pure: a parser called on what it
\* returned gives the same value again, for the attribute value of the run and
\* for every raw string; its result is a function of its argument alone (a
\* group a..d, or the parser's own unrecognized outcome); and the calls leave
\* the attribute value and the state of the aggregation as they were.
C22_ParseIsIdempotentAndPure ==
    /\ cn_soil_group_twice # Unset => cn_soil_group_twice = cn_soil_group
    /\ c_soil_group_twice # Unset => c_soil_group_twice = c_soil_group
    /\ cn_soil_group # Unset =>
          /\ cn_soil_group = CnParseSoilGroup(soil_group_raw)
          /\ CnParseSoilGroup(cn_soil_group) = cn_soil_group
          /\ cn_soil_group \in {Lower(g) : g \in HSG}
    /\ c_soil_group # Unset =>
          /\ c_soil_group = CParseSoilGroup(soil_group_raw)
          /\ CParseSoilGroup(c_soil_group) = c_soil_group
          /\ c_soil_group \in {Lower(g) : g \in HSG} \cup {None}
    /\ soil_group_raw \in RawStrings \cup {NULL}
    /\ AggIdle

\* C22 witness: both parsers were called on a split group and again on what
\* they returned
C22_Witness ==
    /\ soil_group_raw = <<"B", "/", "D">>
    /\ cn_soil_group = <<"d">> /\ cn_soil_group_twice = <<"d">>
    /\ c_soil_group = <<"d">> /\ c_soil_group_twice = <<"d">>

\* C22 witness for the unrecognized outcome of the Rational-C parser
C22_WitnessUnrecognized ==
    /\ soil_group_raw = <<"W">>
    /\ c_soil_group = None /\ c_soil_group_twice = None
    /\ cn_soil_group = <<"d">> /\ cn_soil_group_twice = <<"d">>

---------------------------------------------------------------------------
(* Properties of the category match (SpecCategory).                        *)

\* the text of a category or of a row key, trimmed and lower-cased
Normalized(text) == Lower(Strip(text))

\* the rows of the lookup file of the running calculator
LookupRows == IF calculator = "CN" THEN CnLookupRows ELSE CLookupRows

\* the rows whose key equals the category of fragment f after normalization
RowsMatching(f) ==
    {r \in DOMAIN LookupRows : Normalized(LookupRows[r].landuse) = Normalized(f.landuse)}

\* the soil group the running calculator looks fragment f up with, or None
\* when it does no lookup for f
LookupGroup(f) ==
    IF calculator = "CN" THEN CnParseSoilGroup(f.soil) ELSE CParseSoilGroup(f.soil)

\* the value row r of the lookup file has for soil group g
RowValue(r, g) ==
    IF calculator = "CN"
    THEN CnRowValue(CnLookupRows[r], g)
    ELSE CLookupRows[r].cols[g \o slope_suffix]

\* the number of fragments before the i-th that were counted
CountedBefore(i) == Cardinality({j \in 1..(i - 1) : j \notin warnings})

\* C23: a fragment that is looked up hits a row exactly when its category and
\* the row's key are equal after trimming and lower-casing; it is then counted
\* with the value of that row, whatever the case and surrounding whitespace
\* of the two texts, and a category that is a prefix, an extension or another
\* near-match of every row key is a miss and is not counted.
C23_CategoryMatchIsNormalizedEquality ==
    \A i \in DOMAIN features :
       \A f \in {features[i]} :
          LookupGroup(f) # None =>
             /\ i \in warnings <=> RowsMatching(f) = {}
             /\ i \notin warnings =>
                   /\ Cardinality(RowsMatching(f)) = 1
                   /\ CountedBefore(i) < Len(detailed_records)
                   /\ \A r \in RowsMatching(f) :
                         \A row \in {detailed_records[CountedBefore(i) + 1]} :
                            /\ row.value = RowValue(r, LookupGroup(f))
                            /\ row.landuse = Normalized(LookupRows[r].landuse)

\* C23 witness: two fragments whose categories differ in case and surrounding
\* whitespace hit the same row, and a prefix of the row's key is a miss
C23_Witness ==
    /\ calculator = "CN"
    /\ Len(features) = 2
    /\ features[1].landuse = <<" ","R","E","S"," ">>
    /\ features[2].landuse = <<"R","e","s">>
    /\ features[1].soil = <<"B">> /\ features[2].soil = <<"B">>
    /\ warnings = {}
    /\ Len(detailed_records) = 2
    /\ detailed_records[1].value = 85 /\ detailed_records[2].value = 85

\* C23 witness for the miss
C23_WitnessMiss ==
    /\ calculator = "C"
    /\ Len(features) = 2
    /\ features[1].landuse = <<"r","e">> /\ features[1].soil = <<"B">>
    /\ features[2].landuse = <<"c","o","m"," ">> /\ features[2].soil = <<"B">>
    /\ warnings = {1}
    /\ Len(detailed_records) = 1

---------------------------------------------------------------------------
(* Split soil groups (SpecSoil).                                           *)

\* the rank of a group letter in the ordering A < B < C < D
Restrictiveness(ch) ==
    CASE Upper(<<ch>>) = <<"A">> -> 1 [] Upper(<<ch>>) = <<"B">> -> 2
      [] Upper(<<ch>>) = <<"C">> -> 3 [] Upper(<<ch>>) = <<"D">> -> 4

\* the attribute value is a split group X/Y with X and Y among A, B, C, D
IsSplitGroup(raw) ==
    /\ raw # NULL
    /\ Len(raw) = 3
    /\ raw[2] = "/"
    /\ <<raw[1]>> \in HSG /\ <<raw[3]>> \in HSG

\* the more restrictive of the two groups of a split group, lower-cased
MoreRestrictive(raw) ==
    IF Restrictiveness(raw[1]) >= Restrictiveness(raw[3])
    THEN Lower(<<raw[1]>>) ELSE Lower(<<raw[3]>>)

\* C24: for every split group X/Y with X and Y among A, B, C, D both parsers
\* return the more restrictive of the two groups (A < B < C < D).
C24_SplitResolvesToMoreRestrictive ==
    IsSplitGroup(soil_group_raw) =>
       /\ cn_soil_group # Unset => cn_soil_group = MoreRestrictive(soil_group_raw)
       /\ c_soil_group # Unset => c_soil_group = MoreRestrictive(soil_group_raw)

---------------------------------------------------------------------------
(* The frame of one loop iteration (SpecAgg).                              *)

\* the detail rows of zone z, in the order they were appended
DetailRowsOf(records, z) == SelectSeq(records, LAMBDA row : row.zone = z)

\* C25: one iteration of the loop, on fragment f, leaves the accumulator of
\* every other zone (its presence, total area, weighted sum and detail rows)
\* as it was and creates no accumulator but that of f's zone; a fragment that
\* misses the lookup changes no accumulator and creates none; a fragment that
\* is counted adds its area, its weighted value and one detail row to the
\* accumulator of its own zone.
C25_OnlyOwnZoneChanges ==
    [][Len(features') = Len(features) + 1 =>
         \A i \in {Len(features')} :
            \A f \in {features'[i]} :
               /\ \A z \in Zones \ {f.zone} :
                     /\ z \in DOMAIN subbasin_data' <=> z \in DOMAIN subbasin_data
                     /\ z \in DOMAIN subbasin_data =>
                           subbasin_data'[z] = subbasin_data[z]
                     /\ DetailRowsOf(detailed_records', z)
                           = DetailRowsOf(detailed_records, z)
               /\ DOMAIN subbasin_data' \subseteq DOMAIN subbasin_data \cup {f.zone}
               /\ i \in warnings' =>
                     /\ subbasin_data' = subbasin_data
                     /\ detailed_records' = detailed_records
               /\ i \notin warnings' =>
                     /\ f.zone \in DOMAIN subbasin_data'
                     /\ subbasin_data'[f.zone].total_area
                           = (IF f.zone \in DOMAIN subbasin_data
                              THEN subbasin_data[f.zone].total_area ELSE 0)
                             + AcresFromSqft(f.area)
                     /\ Len(DetailRowsOf(detailed_records', f.zone))
                           = Len(DetailRowsOf(detailed_records, f.zone)) + 1]_vars

\* C25 witness: a fragment of zone 2 was counted after a fragment of zone 1,
\* and both zones have an accumulator
C25_Witness ==
    /\ Len(features) = 2
    /\ features[1].zone = 1 /\ features[2].zone = 2
    /\ features[1].area > 0 /\ features[2].area > 0
    /\ warnings = {}
    /\ DOMAIN subbasin_data = {1, 2}
    /\ subbasin_data[1].total_area = AcresFromSqft(features[1].area)

\* C25 witness for the miss: the second fragment missed the lookup and zone 2
\* has no accumulator
C25_WitnessMiss ==
    /\ Len(features) = 2
    /\ features[1].zone = 1 /\ features[2].zone = 2
    /\ warnings = {2}
    /\ DOMAIN subbasin_data = {1}

---------------------------------------------------------------------------
(* Properties of the toolbox controller (SpecSuite).                       *)

ConfiguredTools == {"cn_calculator", "c_calculator", "tc_calculator", "channel_designer"}

RegisteredIds == {tools_registry[k].id : k \in DOMAIN tools_registry}

\* the places (category, position) at which a category dict lists tool_id
PlacesOf(cats, tool_id) ==
    {<<c, k>> \in (DOMAIN cats) \X (1..Len(ToolConfigs)) :
        k \in DOMAIN cats[c].tools /\ cats[c].tools[k] = tool_id}

\* cats partitions the registered tool ids by the category of their
\* configuration
PartitionsRegistry(cats) ==
    /\ \A c, d \in DOMAIN cats : cats[c].category = cats[d].category => c = d
    /\ \A c \in DOMAIN cats :
          /\ cats[c].tools # <<>>
          /\ Len(cats[c].tools) <= Len(ToolConfigs)
          /\ \A k \in DOMAIN cats[c].tools : cats[c].tools[k] \in RegisteredIds
    /\ \A r \in DOMAIN tools_registry :
          /\ Cardinality(PlacesOf(cats, tools_registry[r].id)) = 1
          /\ \A place \in PlacesOf(cats, tools_registry[r].id) :
                cats[place[1]].category = tools_registry[r].config.category

\* C26: the registry of a constructed controller holds exactly the four
\* configured tools, one entry each; before the first load_tool every tool is
\* unloaded and has no instance; and in every state get_tool_categories
\* partitions exactly the registered ids by category, as does the value it
\* last returned.
C26_RegistryHoldsTheFourTools ==
    /\ RegisteredIds = ConfiguredTools
    /\ Len(tools_registry) = 4
    /\ load_log = <<>> =>
          \A k \in DOMAIN tools_registry :
             ~tools_registry[k].loaded /\ tools_registry[k].instance = NoValue
    /\ PartitionsRegistry(GetToolCategories(tools_registry, 1, <<>>))
    /\ categories # <<>> => PartitionsRegistry(categories[1])

\* C26 witness: the categories were asked for after tools were loaded, and
\* the two runoff tools are listed under one category
C26_Witness ==
    /\ categories # <<>>
    /\ Len(categories[1]) = 3
    /\ categories[1][1] = [category |-> "Runoff Analysis",
                             tools |-> <<"cn_calculator", "c_calculator">>]
    /\ \E k \in DOMAIN tools_registry : tools_registry[k].loaded
    /\ \E k \in DOMAIN load_log : load_log[k].tool_id = "flood_mapper"

\* the values load_tool has returned for tool_id that are not None
ReturnedFor(tool_id) ==
    {load_log[k].returned : k \in {j \in DOMAIN load_log :
        load_log[j].tool_id = tool_id /\ load_log[j].returned # NoValue}}

\* C27: load_tool is lazy and idempotent.  The instances constructed are
\* those the registry holds, at most one per tool id; an entry is loaded
\* exactly when it has its instance; every call for a tool id that did not
\* return None returned the one instance the registry holds for that id, and
\* an entry holds an instance only after such a call; calls that returned
\* None (a failed construction, an unregistered id) left the registry as it
\* was: the registry is the one of the constructor with the returned
\* instances filled in.
C27_LoadToolIsLazyAndIdempotent ==
    /\ instances_created
          = Cardinality({k \in DOMAIN tools_registry :
                            tools_registry[k].instance # NoValue})
    /\ \A k \in DOMAIN tools_registry :
          /\ tools_registry[k].loaded <=> tools_registry[k].instance # NoValue
          /\ tools_registry[k].instance # NoValue =>
                ReturnedFor(tools_registry[k].id) = {tools_registry[k].instance}
          /\ tools_registry[k].instance = NoValue =>
                ReturnedFor(tools_registry[k].id) = {}
    /\ \A k, j \in DOMAIN tools_registry :
          tools_registry[k].instance # NoValue
             /\ tools_registry[k].instance = tools_registry[j].instance => k = j
    /\ \A t \in ToolIdSamples \ RegisteredIds : ReturnedFor(t) = {}
    /\ Len(tools_registry) = Len(DiscoverTools(<<>>, 1))
    /\ \A k \in DOMAIN tools_registry :
          \A entry \in {DiscoverTools(<<>>, 1)[k]} :
             /\ tools_registry[k].id = entry.id
             /\ tools_registry[k].config = entry.config

\* C27 witness: a load of the CN calculator failed, the next one constructed
\* the instance and the third returned the same instance
C27_Witness ==
    /\ Len(load_log) = 3
    /\ load_log[1] = [tool_id |-> "cn_calculator", returned |-> NoValue]
    /\ load_log[2] = [tool_id |-> "cn_calculator", returned |-> <<1>>]
    /\ load_log[3] = [tool_id |-> "cn_calculator", returned |-> <<1>>]
    /\ instances_created = 1
    /\ tools_registry[1].loaded /\ tools_registry[1].instance = <<1>>

---------------------------------------------------------------------------
(* Properties of the batch run as a whole (SpecTc).                        *)

RunReturned == run_pc = "returned" /\ return_value # <<>>

\* the attribute changes of the results, one entry per result, in order
ChangesOfResults ==
    [k \in DOMAIN results |->
        [fid |-> results[k].subbasin_id,
         changes |-> AttributeChanges(layer_fields, results[k])]]

\* C28: the edit session is open only while the basins are processed; when
\* the call has returned the session is closed, by a commit or by a rollback
\* when one was opened, and nothing is left in its buffer; after a commit the
\* layer holds the attribute changes of all results, after a rollback none;
\* the call returns True only after a commit.
C28_EditSessionIsClosed ==
    /\ edit_state = "editing" => run_pc = "processing"
    /\ run_pc = "processing" => edit_state = "editing"
    /\ RunReturned =>
          /\ edit_state \in {"none", "committed", "rolledback"}
          /\ edit_buffer = <<>>
          /\ edit_state = "none" => subbasins = <<>> /\ results = <<>>
          /\ return_value = <<TRUE>> => edit_state = "committed"
    /\ edit_state = "committed" =>
          /\ layer_attributes = ChangesOfResults
          /\ edit_buffer = <<>>
    /\ edit_state # "committed" => layer_attributes = <<>>

\* C28 witness: a run that had collected results and attribute changes ended
\* with a rollback
C28_Witness ==
    /\ RunReturned
    /\ edit_state = "rolledback"
    /\ results # <<>>
    /\ return_value = <<FALSE>>
    /\ layer_attributes = <<>>

\* C28 witness for the commit
C28_WitnessCommitted ==
    /\ RunReturned
    /\ edit_state = "committed"
    /\ Len(layer_attributes) = 2
    /\ return_value = <<TRUE>>

---------------------------------------------------------------------------
(* The values that enter the statistics of a batch run (SpecTc).           *)

\* the values a result stores for the methods of a method list, the names
\* taken as the run accepts them (in any case), one value per method
StoredValuesOfSelected(res, selected) ==
    LET chosen(m) == \E i \in DOMAIN selected : Lower(selected[i]) = m
        value(m) == IF chosen(m) THEN MethodMapGet(res, m) ELSE NoValue
    IN value(KirpichName) \o value(FaaName) \o value(ScsName) \o value(KerbyName)

\* the number of times v occurs in the list xs
Occurrences(xs, v) == Cardinality({i \in DOMAIN xs : xs[i] = v})

\* two lists hold the same values the same number of times
SameMultiset(xs, ys) ==
    \A v \in {xs[i] : i \in DOMAIN xs} \cup {ys[i] : i \in DOMAIN ys} :
       Occurrences(xs, v) = Occurrences(ys, v)

\* C29: for every result of a batch run the values calculate_statistics uses
\* are, as a multiset, the non-null values the result stores for the selected
\* methods, and the statistics stored are those of these values.
C29_StoredValuesEnterStatistics ==
    \A k \in DOMAIN results :
       \A stored \in {StoredValuesOfSelected(results[k], SelectedMethods)} :
          /\ SameMultiset(ValidResults(results[k], SelectedMethods), stored)
          /\ Len(stored) >= 2 =>
                /\ results[k].tc_average_min = <<Mean(stored)>>
                /\ results[k].tc_recommended_min = <<Median(stored)>>
          /\ Len(stored) = 1 =>
                results[k].tc_average_min = <<Ratio(stored[1], 1)>>

\* C30: calculate_tc_for_subbasins ends by returning True or False and in no
\* other way: as long as it has not returned, a next step of it can be taken.
\* It returns True only when the inputs were valid, all basins were
\* processed and committed, at least one basin has a result and the results
\* file holds the results; a call that returned after a validation failure,
\* a processing failure (fields, edit session, commit), with no result or
\* without the file returned False.
C30_ReturnsTrueOrFalse ==
    /\ return_value \in {<<>>, <<TRUE>>, <<FALSE>>}
    /\ return_value # <<>> <=> run_pc = "returned"
    /\ run_pc \notin {"idle", "returned"} => ENABLED NextRun
    /\ return_value = <<TRUE>> =>
          /\ InputsValid
          /\ layer_fields = OutputFields(SelectedMethods)
          /\ edit_state = "committed"
          /\ Len(subbasins) = run_args.feature_count
          /\ results # <<>>
          /\ csv_rows = <<results>>
    /\ RunReturned /\ (\/ ~InputsValid
                        \/ layer_fields = {}
                        \/ edit_state # "committed"
                        \/ results = <<>>
                        \/ csv_rows = <<>>) =>
          return_value = <<FALSE>>

\* C30 witness: the basins were processed and committed, a result exists and
\* the results file could not be written: the call returned False
C30_Witness ==
    /\ RunReturned
    /\ return_value = <<FALSE>>
    /\ edit_state = "committed"
    /\ results # <<>>
    /\ csv_rows = <<>>

\* C30 witness for True
C30_WitnessTrue ==
    /\ RunReturned
    /\ return_value = <<TRUE>>
    /\ Len(results) = 1
    /\ Len(subbasins) = 2

===========================================================================
